---- MODULE Spec2Model ----
(***************************************************************************)
(* SQLite MCP server: the tool-call dispatcher of server.ts,               *)
(* dual-server.js and server-persistent.js, the SQL statements it builds,  *)
(* the database handle it shares between tool calls, and the part of the   *)
(* SQLite engine the statements exercise.                                  *)
(*                                                                         *)
(* JavaScript strings are TLA+ strings; Head, Tail, SubSeq, Len and \o     *)
(* work on them character by character.                                    *)
(***************************************************************************)
EXTENDS Integers, Sequences, FiniteSets, TLC

VARIABLES
    variant,    \* which program runs: "ts", "dual", "persistent" or "wrapper"
    workload,   \* the clients: "serial", "concurrent" or "session"
    proc,       \* the process: "starting", "running", "exit0", "exit1", "killed",
                \* "crashed"
    db,         \* this.db: "null", or the state of the sqlite3.Database handle
    connects,   \* how many sqlite3.Database handles were constructed
    conn,       \* progress of connectDatabase: its caller and its stage
    tables,     \* the database: table name -> [cols, rows]
    lastID,     \* the engine's last assigned rowid
    calls,      \* the tool calls in progress: slot -> call record
    http,       \* the last exchange on the HTTP routes for /query and the tables
    stdio,      \* the stdio session: requests sent, responses written, lines unread
    child       \* http-wrapper.ts: the MCP server it spawned and the requests
                \* waiting for its output

vars == <<variant, workload, proc, db, connects, conn, tables, lastID, calls, http, stdio, child>>

----------------------------------------------------------------------------
(* Bounds of the model *)

\* tool calls that may be in progress at the same time
MaxInFlight == 2
\* rowids the engine may assign (insert_row requests are not offered beyond it)
MaxRows == 2
\* requests a client sends in one stdio session
MaxRequests == 3

----------------------------------------------------------------------------
(* JavaScript strings *)

WhiteSpace == {" ", "\n", "\t"}

RECURSIVE TrimStart(_)
TrimStart(s) ==
    IF Len(s) > 0 /\ Head(s) \in WhiteSpace THEN TrimStart(Tail(s)) ELSE s

RECURSIVE TrimEnd(_)
TrimEnd(s) ==
    IF Len(s) > 0 /\ SubSeq(s, Len(s), Len(s)) \in WhiteSpace
    THEN TrimEnd(SubSeq(s, 1, Len(s) - 1))
    ELSE s

\* a string left untrimmed (faulty variant)
Untrimmed(s) == s

\* String.prototype.trim
Trim(s) == TrimEnd(TrimStart(s))

UpperToLower ==
    [c \in {"A","B","C","D","E","F","G","H","I","J","K","L","M",
            "N","O","P","Q","R","S","T","U","V","W","X","Y","Z"} |->
        CASE c = "A" -> "a" [] c = "B" -> "b" [] c = "C" -> "c" [] c = "D" -> "d"
          [] c = "E" -> "e" [] c = "F" -> "f" [] c = "G" -> "g" [] c = "H" -> "h"
          [] c = "I" -> "i" [] c = "J" -> "j" [] c = "K" -> "k" [] c = "L" -> "l"
          [] c = "M" -> "m" [] c = "N" -> "n" [] c = "O" -> "o" [] c = "P" -> "p"
          [] c = "Q" -> "q" [] c = "R" -> "r" [] c = "S" -> "s" [] c = "T" -> "t"
          [] c = "U" -> "u" [] c = "V" -> "v" [] c = "W" -> "w" [] c = "X" -> "x"
          [] c = "Y" -> "y" [] c = "Z" -> "z"]

LowerChar(c) == IF c \in DOMAIN UpperToLower THEN UpperToLower[c] ELSE c

RECURSIVE ToLowerCase(_)
\* String.prototype.toLowerCase
ToLowerCase(s) ==
    IF Len(s) = 0 THEN "" ELSE LowerChar(Head(s)) \o ToLowerCase(Tail(s))

\* String.prototype.startsWith
StartsWith(s, prefix) ==
    Len(s) >= Len(prefix) /\ SubSeq(s, 1, Len(prefix)) = prefix

RECURSIVE Join(_, _)
\* Array.prototype.join on an array of strings
Join(parts, sep) ==
    IF Len(parts) = 0 THEN ""
    ELSE IF Len(parts) = 1 THEN parts[1]
    ELSE parts[1] \o sep \o Join(Tail(parts), sep)

----------------------------------------------------------------------------
(* JavaScript values: the arguments of a tool call *)

Undefined == [t |-> "undefined"]
Str(s) == [t |-> "string", v |-> s]
Num(n) == [t |-> "number", v |-> n]
Null == [t |-> "null"]
\* an object literal: its own properties in insertion order
Obj(props) == [t |-> "object", v |-> props]
Prop(k, v) == [k |-> k, v |-> v]

\* typeof x
TypeOf(x) == IF x.t = "null" THEN "object" ELSE x.t

\* the truthiness the handler's !x tests
Truthy(x) ==
    CASE x.t = "undefined" -> FALSE
      [] x.t = "null" -> FALSE
      [] x.t = "string" -> x.v # ""
      [] x.t = "number" -> x.v # 0
      [] OTHER -> TRUE

Digit == <<"1", "2", "3", "4", "5", "6", "7", "8", "9">>

RECURSIVE NumToString(_)
NumToString(n) ==
    IF n = 0 THEN "0"
    ELSE IF n < 10 THEN Digit[n]
    ELSE NumToString(n \div 10) \o (IF n % 10 = 0 THEN "0" ELSE Digit[n % 10])

\* the conversion a template literal `${x}` applies
JsString(x) ==
    CASE x.t = "undefined" -> "undefined"
      [] x.t = "null" -> "null"
      [] x.t = "string" -> x.v
      [] x.t = "number" -> NumToString(x.v)
      [] OTHER -> "[object Object]"

\* Object.keys / Object.values throw a TypeError on undefined and null
KeysThrows(x) == x.t \in {"undefined", "null"}
TypeErrorKeys == "Cannot convert undefined or null to object"

\* Object.keys(x): a string has its indices as keys, a number has none
ObjectKeys(x) ==
    CASE x.t = "object" -> [i \in 1..Len(x.v) |-> x.v[i].k]
      [] x.t = "string" -> [i \in 1..Len(x.v) |-> NumToString(i - 1)]
      [] OTHER -> <<>>

\* Object.values(x)
ObjectValues(x) ==
    CASE x.t = "object" -> [i \in 1..Len(x.v) |-> x.v[i].v]
      [] x.t = "string" -> [i \in 1..Len(x.v) |-> Str(SubSeq(x.v, i, i))]
      [] OTHER -> <<>>

----------------------------------------------------------------------------
(* SQL statement builders *)

Stmt(method, sql, params) == [method |-> method, sql |-> sql, params |-> params]

ListTablesSql ==
    "\n        SELECT name FROM sqlite_master \n        WHERE type='table' AND name NOT LIKE 'sqlite_%'\n        ORDER BY name\n      "

SchemaSql(tableName) == "PRAGMA table_info(" \o JsString(tableName) \o ")"

CreateSql ==
    "\n          SELECT sql FROM sqlite_master \n          WHERE type='table' AND name = ?\n        "

\* one placeholder whatever the number of columns (faulty variant)
OnePlaceholder(columns) == "?"

Placeholders(columns) == Join([i \in 1..Len(columns) |-> "?"], ", ")

\* an insert statement with the values written into the text (faulty variant)
InsertSqlInline(tableName, data) ==
    "INSERT INTO " \o JsString(tableName) \o " ("
        \o Join(ObjectKeys(data), ", ") \o ") VALUES ("
        \o Join([i \in 1..Len(ObjectValues(data)) |->
                    "'" \o JsString(ObjectValues(data)[i]) \o "'"], ", ") \o ")"

InsertSql(tableName, data) ==
    "INSERT INTO " \o JsString(tableName) \o " ("
        \o Join(ObjectKeys(data), ", ") \o ") VALUES ("
        \o Placeholders(ObjectKeys(data)) \o ")"

\* the column names bound in place of the values (faulty variant)
KeysAsParams(data) == [i \in 1..Len(ObjectKeys(data)) |-> Str(ObjectKeys(data)[i])]

InsertParams(data) == ObjectValues(data)

EqClause(columns, sep) == Join([i \in 1..Len(columns) |-> columns[i] \o " = ?"], sep)

UpdateSql(tableName, data, where) ==
    "UPDATE " \o JsString(tableName) \o " SET " \o EqClause(ObjectKeys(data), ", ")
        \o " WHERE " \o EqClause(ObjectKeys(where), " AND ")

\* the values of where bound before those of data (faulty variant)
WhereFirst(data, where) == ObjectValues(where) \o ObjectValues(data)

UpdateParams(data, where) == ObjectValues(data) \o ObjectValues(where)

\* a delete statement without its conditions (faulty variant)
DeleteSqlNoWhere(tableName, where) == "DELETE FROM " \o JsString(tableName)

DeleteSql(tableName, where) ==
    "DELETE FROM " \o JsString(tableName) \o " WHERE "
        \o EqClause(ObjectKeys(where), " AND ")

DeleteParams(where) == ObjectValues(where)

PragmaForeignKeys == "PRAGMA foreign_keys = ON"
PragmaWal == "PRAGMA journal_mode = WAL"

----------------------------------------------------------------------------
(* The SQLite engine, as far as the statements above exercise it: a lexer, *)
(* the statement shapes, and their effect on the tables.                   *)

Punct == {"(", ")", ",", ";", "=", "*"}

IdentChars ==
    {"a","b","c","d","e","f","g","h","i","j","k","l","m",
     "n","o","p","q","r","s","t","u","v","w","x","y","z",
     "0","1","2","3","4","5","6","7","8","9","_"}

DigitChars == {"0","1","2","3","4","5","6","7","8","9"}

Keywords ==
    {"select", "from", "where", "and", "not", "like", "order", "by", "insert",
     "into", "values", "update", "set", "delete", "drop", "table", "pragma"}

\* F of the value of e
With(e, F(_)) == CHOOSE r \in {F(v) : v \in {e}} : TRUE

Min(S) == CHOOSE x \in S : \A y \in S : x <= y
Max(S) == CHOOSE x \in S : \A y \in S : x >= y

\* the first position >= i of character c in s, or 0
IndexOf(s, c, i) ==
    LET at == {k \in i..Len(s) : SubSeq(s, k, k) = c} IN
    IF at = {} THEN 0 ELSE Min(at)

\* the first position of s whose character is (stop) or is not (~stop) in set,
\* or Len(s) + 1
FirstWhere(s, set, stop) ==
    Min({k \in 1..Len(s) : (SubSeq(s, k, k) \in set) = stop} \cup {Len(s) + 1})

RECURSIVE Lex(_)
\* the tokens of s: words, punctuation, '...' literals; -- starts a comment
Lex(s) ==
    IF Len(s) = 0 THEN <<>>
    ELSE LET c == Head(s) IN
        IF c \in WhiteSpace THEN Lex(SubSeq(s, FirstWhere(s, WhiteSpace, FALSE), Len(s)))
        ELSE IF StartsWith(s, "--") THEN
            LET nl == IndexOf(s, "\n", 1) IN
            IF nl = 0 THEN <<>> ELSE Lex(SubSeq(s, nl + 1, Len(s)))
        ELSE IF c = "'" THEN
            LET q == IndexOf(s, "'", 2) IN
            IF q = 0 THEN <<s>> ELSE <<SubSeq(s, 1, q)>> \o Lex(SubSeq(s, q + 1, Len(s)))
        ELSE IF c \in Punct \cup {"-"} THEN <<c>> \o Lex(Tail(s))
        ELSE LET e == FirstWhere(s, WhiteSpace \cup Punct \cup {"-", "'"}, TRUE) IN
             <<SubSeq(s, 1, e - 1)>> \o Lex(SubSeq(s, e, Len(s)))

Tokens(sql) == Lex(sql)

RECURSIVE TokenIndex(_, _, _)
\* the first position >= i of token t (compared in lower case), or 0
TokenIndex(toks, t, i) ==
    IF i > Len(toks) THEN 0
    ELSE IF ToLowerCase(toks[i]) = t THEN i
    ELSE TokenIndex(toks, t, i + 1)

\* sqlite3_prepare compiles the first statement of the text and ignores the rest
FirstStatement(toks) ==
    LET semi == TokenIndex(toks, ";", 1) IN
    IF semi = 0 THEN toks ELSE SubSeq(toks, 1, semi - 1)

\* token i in lower case, "" past the end
Kw(toks, i) == IF i >= 1 /\ i <= Len(toks) THEN ToLowerCase(toks[i]) ELSE ""

RECURSIVE AllIn(_, _)
AllIn(s, set) == Len(s) = 0 \/ (Head(s) \in set /\ AllIn(Tail(s), set))

IsNumberToken(tok) == tok # "" /\ AllIn(tok, DigitChars)

IsIdent(tok) ==
    /\ tok # ""
    /\ AllIn(ToLowerCase(tok), IdentChars)
    /\ Head(tok) \notin DigitChars
    /\ ToLowerCase(tok) \notin Keywords

IsQuoted(tok) ==
    Len(tok) >= 2 /\ Head(tok) = "'" /\ SubSeq(tok, Len(tok), Len(tok)) = "'"

RECURSIVE ParseNum(_, _)
ParseNum(tok, acc) ==
    IF Len(tok) = 0 THEN acc
    ELSE ParseNum(Tail(tok),
                  10 * acc + CHOOSE d \in 0..9 : NumToString(d) = Head(tok))

(* The engine's answer to one statement *)
NoErr == ""
Result(err, rows, changes, lid, tbls) ==
    [err |-> err, cols |-> <<>>, rows |-> rows, changes |-> changes, lastID |-> lid,
     tables |-> tbls]
\* a result set: the rows and the order of their columns
RowSet(cols, rows, lid, tbls) == [Result(NoErr, rows, 0, lid, tbls) EXCEPT !.cols = cols]
Failed(msg, lid, tbls) == Result(msg, <<>>, 0, lid, tbls)

SyntaxError == "SQLITE_ERROR: syntax error"
NoSuchTable(t) == "SQLITE_ERROR: no such table: " \o t
NoSuchColumn(c) == "SQLITE_ERROR: no such column: " \o c
RangeError == "SQLITE_RANGE: column index out of range"
NotNullError(c) == "SQLITE_CONSTRAINT: NOT NULL constraint failed: " \o c
UniqueError(c) == "SQLITE_CONSTRAINT: UNIQUE constraint failed: " \o c
MismatchError == "SQLITE_MISMATCH: datatype mismatch"

RECURSIVE Like(_, _)
\* s LIKE pat: % any run of characters, _ any one character, letters by case
Like(s, pat) ==
    IF pat = "" THEN s = ""
    ELSE LET c == Head(pat) IN
        IF c = "%" THEN Like(s, Tail(pat)) \/ (s # "" /\ Like(Tail(s), pat))
        ELSE IF c = "_" THEN s # "" /\ Like(Tail(s), Tail(pat))
        ELSE s # "" /\ LowerChar(Head(s)) = LowerChar(c) /\ Like(Tail(s), Tail(pat))

\* the argument of a comparison at token i: ?, 'text' or a number
CondArg(toks, i, p) ==
    LET tok == IF i <= Len(toks) THEN toks[i] ELSE "" IN
    IF tok = "?" THEN [ok |-> TRUE, param |-> p, lit |-> Null, p |-> p + 1]
    ELSE IF IsQuoted(tok) THEN
        [ok |-> TRUE, param |-> 0, lit |-> Str(SubSeq(tok, 2, Len(tok) - 1)), p |-> p]
    ELSE IF IsNumberToken(tok) THEN
        [ok |-> TRUE, param |-> 0, lit |-> Num(ParseNum(tok, 0)), p |-> p]
    ELSE [ok |-> FALSE, param |-> 0, lit |-> Null, p |-> p]

RECURSIVE ParseConds(_, _, _, _, _)
\* col = arg [sep col = arg ...] from token i; sep is "and" (WHERE) or "," (SET)
ParseConds(toks, i, p, sep, acc) ==
    With(Kw(toks, i + 1), LAMBDA op :
    With(IF op = "not" THEN i + 3 ELSE i + 2, LAMBDA argAt :
    With(CondArg(toks, argAt, p), LAMBDA arg :
        LET bad == [ok |-> FALSE, conds |-> acc, i |-> i, p |-> p]
            col == IF i <= Len(toks) THEN toks[i] ELSE ""
            isLike == op = "like" \/ (op = "not" /\ Kw(toks, i + 2) = "like")
            cond == [col |-> col,
                     op |-> IF op = "=" THEN "eq" ELSE IF op = "like" THEN "like" ELSE "notlike",
                     param |-> arg.param, lit |-> arg.lit]
        IN  IF ~IsIdent(col) THEN bad
            ELSE IF ~(op = "=" \/ (isLike /\ sep = "and")) THEN bad
            ELSE IF ~arg.ok THEN bad
            ELSE IF Kw(toks, argAt + 1) = sep
                THEN ParseConds(toks, argAt + 2, arg.p, sep, Append(acc, cond))
            ELSE [ok |-> TRUE, conds |-> Append(acc, cond), i |-> argAt + 1, p |-> arg.p])))

\* the value bound to a comparison: a parameter left unbound is NULL
ArgValue(cond, params) ==
    IF cond.param > 0
    THEN IF cond.param <= Len(params) THEN params[cond.param] ELSE Null
    ELSE cond.lit

SqlEq(a, b) == a.t = b.t /\ a.t \in {"string", "number"} /\ a.v = b.v

CondHolds(row, cond, params) ==
    LET v == row[cond.col]
        a == ArgValue(cond, params)
    IN  CASE cond.op = "eq" -> SqlEq(v, a)
          [] cond.op = "like" -> v.t = "string" /\ a.t = "string" /\ Like(v.v, a.v)
          [] OTHER -> v.t = "string" /\ a.t = "string" /\ ~Like(v.v, a.v)

Matches(row, conds, params) ==
    \A k \in 1..Len(conds) : CondHolds(row, conds[k], params)

\* the first column the comparisons name that is not in cols, or ""
MissingColumn(cols, conds) ==
    LET bad == {k \in 1..Len(conds) : conds[k].col \notin cols} IN
    IF bad = {} THEN "" ELSE conds[Min(bad)].col

RECURSIVE Where(_, _, _)
\* the rows that satisfy the comparisons, in order
Where(rows, conds, params) ==
    IF Len(rows) = 0 THEN <<>>
    ELSE (IF Matches(rows[1], conds, params) THEN <<rows[1]>> ELSE <<>>)
            \o Where(Tail(rows), conds, params)

(* Tables: each [name, sql, cols, rows, seq]; a column is                  *)
(* [name, type, notnull, dflt, pk] as PRAGMA table_info reports it, a row  *)
(* maps column names to values, seq is the largest rowid ever assigned.    *)

Column(name, type, notnull, dflt, pk) ==
    [name |-> name, type |-> type, notnull |-> notnull, dflt |-> dflt, pk |-> pk]

RECURSIVE TableIndex(_, _, _)
\* the position of table name in tbls (names compare by case), or 0
TableIndex(tbls, name, i) ==
    IF i > Len(tbls) THEN 0
    ELSE IF ToLowerCase(tbls[i].name) = ToLowerCase(name) THEN i
    ELSE TableIndex(tbls, name, i + 1)

ColumnNames(tbl) == {tbl.cols[k].name : k \in 1..Len(tbl.cols)}

\* sqlite_master: one row per table
Catalog(tbls) ==
    [i \in 1..Len(tbls) |->
        [type |-> Str("table"), name |-> Str(tbls[i].name), sql |-> Str(tbls[i].sql)]]

CatalogOrder == <<"type", "name", "sql">>
CatalogColumns == {CatalogOrder[k] : k \in 1..Len(CatalogOrder)}
TableInfoOrder == <<"cid", "name", "type", "notnull", "dflt_value", "pk">>

\* PRAGMA table_info: one row per column, pk numbering the key's columns from 1
TableInfo(tbl) ==
    [k \in 1..Len(tbl.cols) |->
        [cid |-> Num(k - 1), name |-> Str(tbl.cols[k].name),
         type |-> Str(tbl.cols[k].type), notnull |-> Num(tbl.cols[k].notnull),
         dflt_value |-> tbl.cols[k].dflt, pk |-> Num(tbl.cols[k].pk)]]

\* a comma-separated list of tokens: its items
ListOk(items) ==
    /\ Len(items) % 2 = 1
    /\ \A k \in 1..Len(items) : (k % 2 = 0) <=> (items[k] = ",")
ListItems(items) == [k \in 1..((Len(items) + 1) \div 2) |-> items[2 * k - 1]]

CharOrder == "0123456789ABCDEFGHIJKLMNOPQRSTUVWXYZ_abcdefghijklmnopqrstuvwxyz"
Ord(c) == IndexOf(CharOrder, c, 1)

RECURSIVE StrLess(_, _)
StrLess(a, b) ==
    IF b = "" THEN FALSE
    ELSE IF a = "" THEN TRUE
    ELSE IF Head(a) = Head(b) THEN StrLess(Tail(a), Tail(b))
    ELSE Ord(Head(a)) < Ord(Head(b))

\* the engine's order of values: NULL, then numbers, then text
ValueLess(a, b) ==
    CASE a.t = "null" -> b.t # "null"
      [] a.t = "number" -> (b.t = "number" /\ a.v < b.v) \/ b.t = "string"
      [] a.t = "string" -> b.t = "string" /\ StrLess(a.v, b.v)
      [] OTHER -> FALSE

RECURSIVE InsertSorted(_, _, _)
InsertSorted(sorted, row, col) ==
    IF Len(sorted) = 0 THEN <<row>>
    ELSE IF ValueLess(row[col], sorted[1][col]) THEN <<row>> \o sorted
    ELSE <<sorted[1]>> \o InsertSorted(Tail(sorted), row, col)

RECURSIVE OrderBy(_, _)
OrderBy(rows, col) ==
    IF Len(rows) = 0 THEN <<>>
    ELSE InsertSorted(OrderBy(SubSeq(rows, 1, Len(rows) - 1), col), rows[Len(rows)], col)

LiteralValue(tok) ==
    IF IsQuoted(tok) THEN Str(SubSeq(tok, 2, Len(tok) - 1)) ELSE Num(ParseNum(tok, 0))

IsLiteral(tok) == IsQuoted(tok) \/ IsNumberToken(tok)

Project(row, names) ==
    IF \E k \in 1..Len(names) : names[k] = "*" THEN row
    ELSE [n \in {names[k] : k \in 1..Len(names)} |->
            IF IsLiteral(n) THEN LiteralValue(n) ELSE row[n]]

\* SELECT items [FROM table [WHERE comparisons] [ORDER BY column]]
ExecSelect(toks, params, tbls, lid) ==
    With(TokenIndex(toks, "from", 2), LAMBDA from :
    With(IF from = 0 THEN SubSeq(toks, 2, Len(toks)) ELSE SubSeq(toks, 2, from - 1),
         LAMBDA items :
    With(ListItems(items), LAMBDA names :
    With(IF Kw(toks, from + 2) = "where" THEN ParseConds(toks, from + 3, 1, "and", <<>>)
         ELSE [ok |-> TRUE, conds |-> <<>>, i |-> from + 2, p |-> 1], LAMBDA w :
    With(Kw(toks, w.i) = "order" /\ Kw(toks, w.i + 1) = "by", LAMBDA hasOrder :
    With(IF from # 0 /\ from < Len(toks) THEN toks[from + 1] ELSE "", LAMBDA tname :
    With(TableIndex(tbls, tname, 1), LAMBDA ti :
    With(ToLowerCase(tname) = "sqlite_master", LAMBDA isCatalog :
    With(IF isCatalog THEN CatalogColumns
         ELSE IF ti = 0 THEN {} ELSE ColumnNames(tbls[ti]), LAMBDA cols :
        LET ocol == IF hasOrder /\ w.i + 2 <= Len(toks) THEN toks[w.i + 2] ELSE ""
            end == IF hasOrder THEN w.i + 3 ELSE w.i
            src == IF isCatalog THEN Catalog(tbls) ELSE tbls[ti].rows
            used == {names[k] : k \in 1..Len(names)} \ {"*"}
            unknown == {n \in used : ~IsLiteral(n) /\ n \notin cols}
            found == Where(src, w.conds, params)
            sorted == IF hasOrder THEN OrderBy(found, ocol) ELSE found
            outCols == IF \E k \in 1..Len(names) : names[k] = "*"
                       THEN (IF isCatalog THEN CatalogOrder
                             ELSE [k \in 1..Len(tbls[ti].cols) |-> tbls[ti].cols[k].name])
                       ELSE names
        IN  IF ~ListOk(items) \/ \E k \in 1..Len(names) :
                    ~(names[k] = "*" \/ IsIdent(names[k]) \/ IsLiteral(names[k]))
                THEN Failed(SyntaxError, lid, tbls)
            ELSE IF from = 0 THEN
                IF \E k \in 1..Len(names) : ~IsLiteral(names[k])
                THEN Failed(NoSuchColumn(names[1]), lid, tbls)
                ELSE RowSet(names,
                            <<[n \in {names[k] : k \in 1..Len(names)} |-> LiteralValue(n)]>>,
                            lid, tbls)
            ELSE IF ~IsIdent(tname) \/ ~w.ok \/ (hasOrder /\ ~IsIdent(ocol))
                    \/ end # Len(toks) + 1
                THEN Failed(SyntaxError, lid, tbls)
            ELSE IF ~isCatalog /\ ti = 0 THEN Failed(NoSuchTable(tname), lid, tbls)
            ELSE IF unknown # {}
                THEN Failed(NoSuchColumn(CHOOSE n \in unknown : TRUE), lid, tbls)
            ELSE IF MissingColumn(cols, w.conds) # ""
                THEN Failed(NoSuchColumn(MissingColumn(cols, w.conds)), lid, tbls)
            ELSE IF hasOrder /\ ocol \notin cols THEN Failed(NoSuchColumn(ocol), lid, tbls)
            ELSE IF Len(params) > w.p - 1 THEN Failed(RangeError, lid, tbls)
            ELSE RowSet(outCols, [k \in 1..Len(sorted) |-> Project(sorted[k], names)],
                        lid, tbls))))))))))

\* PRAGMA table_info(name), PRAGMA name = value, PRAGMA name
ExecPragma(toks, params, tbls, lid) ==
    LET arg == IF Len(toks) >= 4 THEN toks[4] ELSE ""
        ti == TableIndex(tbls, arg, 1)
    IN  IF Len(toks) = 5 /\ Kw(toks, 2) = "table_info" /\ toks[3] = "(" /\ toks[5] = ")"
           /\ (IsIdent(arg) \/ IsLiteral(arg))
        THEN RowSet(TableInfoOrder, IF ti = 0 THEN <<>> ELSE TableInfo(tbls[ti]), lid, tbls)
        ELSE IF \/ (Len(toks) = 4 /\ IsIdent(toks[2]) /\ toks[3] = "=")
                \/ (Len(toks) = 2 /\ IsIdent(toks[2]))
        THEN Result(NoErr, <<>>, 0, lid, tbls)
        ELSE Failed(SyntaxError, lid, tbls)

\* the column that is an alias of the rowid (a single INTEGER PRIMARY KEY), or ""
RowidAlias(tbl) ==
    LET pks == {k \in 1..Len(tbl.cols) : tbl.cols[k].pk > 0} IN
    IF Cardinality(pks) = 1 /\ tbl.cols[Min(pks)].type = "INTEGER"
    THEN tbl.cols[Min(pks)].name ELSE ""

KeyColumns(tbl) == {tbl.cols[k].name : k \in {j \in 1..Len(tbl.cols) : tbl.cols[j].pk > 0}}

SameKey(tbl, r1, r2) == \A c \in KeyColumns(tbl) : SqlEq(r1[c], r2[c])

\* the constraint a set of rows breaks, or ""
Violation(tbl, rows) ==
    LET nulls == {k \in 1..Len(tbl.cols) :
                    tbl.cols[k].notnull = 1
                    /\ \E i \in 1..Len(rows) : rows[i][tbl.cols[k].name].t = "null"}
        alias == RowidAlias(tbl)
    IN  IF nulls # {} THEN NotNullError(tbl.name \o "." \o tbl.cols[Min(nulls)].name)
        ELSE IF alias # "" /\ \E i \in 1..Len(rows) : rows[i][alias].t # "number"
            THEN MismatchError
        ELSE IF KeyColumns(tbl) # {} /\ \E i, j \in 1..Len(rows) :
                    i < j /\ SameKey(tbl, rows[i], rows[j])
            THEN UniqueError(tbl.name)
        ELSE ""

ReplaceTable(tbls, ti, tbl) == [tbls EXCEPT ![ti] = tbl]

\* INSERT INTO table (columns) VALUES (values)
ExecInsert(toks, params, tbls, lid) ==
    With(TokenIndex(toks, ")", 5), LAMBDA close :
    With(TokenIndex(toks, ")", close + 3), LAMBDA close2 :
    With(SubSeq(toks, 5, close - 1), LAMBDA colItems :
    With(SubSeq(toks, close + 3, close2 - 1), LAMBDA valItems :
    With(ListItems(colItems), LAMBDA cols :
    With(ListItems(valItems), LAMBDA vals :
    With(IF Len(toks) >= 3 THEN toks[3] ELSE "", LAMBDA tname :
    With(TableIndex(tbls, tname, 1), LAMBDA ti :
        LET tbl == tbls[ti]
            marks == {k \in 1..Len(vals) : vals[k] = "?"}
            \* the value of the k-th item: placeholders bind the parameters in order
            Given(k) ==
                IF vals[k] = "?"
                THEN LET n == Cardinality({j \in marks : j <= k}) IN
                     IF n <= Len(params) THEN params[n] ELSE Null
                ELSE LiteralValue(vals[k])
            unknown == {k \in 1..Len(cols) : cols[k] \notin ColumnNames(tbl)}
        IN  IF ~(/\ Kw(toks, 2) = "into" /\ IsIdent(tname) /\ Kw(toks, 4) = "("
                 /\ close > 5 /\ ListOk(colItems)
                 /\ \A k \in 1..Len(cols) : IsIdent(cols[k])
                 /\ Kw(toks, close + 1) = "values" /\ Kw(toks, close + 2) = "("
                 /\ close2 = Len(toks) /\ close2 > close + 3 /\ ListOk(valItems)
                 /\ \A k \in 1..Len(vals) : vals[k] = "?" \/ IsLiteral(vals[k]))
                THEN Failed(SyntaxError, lid, tbls)
            ELSE IF ti = 0 THEN Failed(NoSuchTable(tname), lid, tbls)
            ELSE IF unknown # {}
                THEN Failed("SQLITE_ERROR: table " \o tname \o " has no column named "
                                \o cols[Min(unknown)], lid, tbls)
            ELSE IF Len(vals) # Len(cols)
                THEN Failed("SQLITE_ERROR: " \o NumToString(Len(vals)) \o " values for "
                                \o NumToString(Len(cols)) \o " columns", lid, tbls)
            ELSE IF Len(params) > Cardinality(marks) THEN Failed(RangeError, lid, tbls)
            ELSE
                With(RowidAlias(tbl), LAMBDA alias :
                With([c \in ColumnNames(tbl) |->
                        With(tbl.cols[CHOOSE k \in 1..Len(tbl.cols) : tbl.cols[k].name = c],
                             LAMBDA col :
                        With({k \in 1..Len(cols) : cols[k] = c}, LAMBDA at :
                            IF at # {} /\ ~(c = alias /\ Given(Min(at)).t = "null")
                            THEN Given(Min(at))
                            ELSE IF c = alias THEN Num(tbl.seq + 1)
                            ELSE col.dflt))], LAMBDA row :
                With(IF alias # "" /\ row[alias].t = "number" THEN row[alias].v
                     ELSE tbl.seq + 1, LAMBDA rowid :
                With(Violation(tbl, Append(tbl.rows, row)), LAMBDA broken :
                    IF broken # "" THEN Failed(broken, lid, tbls)
                    ELSE Result(NoErr, <<>>, 1, rowid,
                            ReplaceTable(tbls, ti,
                                [tbl EXCEPT !.rows = Append(tbl.rows, row),
                                            !.seq = IF rowid > tbl.seq THEN rowid
                                                    ELSE tbl.seq]))))))))))))))

\* UPDATE table SET col = arg, ... [WHERE comparisons]
ExecUpdate(toks, params, tbls, lid) ==
    With(ParseConds(toks, 4, 1, ",", <<>>), LAMBDA sets :
    With(IF Kw(toks, sets.i) = "where" THEN ParseConds(toks, sets.i + 1, sets.p, "and", <<>>)
         ELSE [ok |-> TRUE, conds |-> <<>>, i |-> sets.i, p |-> sets.p], LAMBDA w :
    With(IF Len(toks) >= 2 THEN toks[2] ELSE "", LAMBDA tname :
    With(TableIndex(tbls, tname, 1), LAMBDA ti :
        LET tbl == tbls[ti]
            Changed(row) ==
                [c \in DOMAIN row |->
                    With({k \in 1..Len(sets.conds) : sets.conds[k].col = c}, LAMBDA at :
                        IF at = {} THEN row[c] ELSE ArgValue(sets.conds[Max(at)], params))]
        IN  IF ~(IsIdent(tname) /\ Kw(toks, 3) = "set" /\ sets.ok /\ w.ok
                 /\ w.i = Len(toks) + 1)
                THEN Failed(SyntaxError, lid, tbls)
            ELSE IF ti = 0 THEN Failed(NoSuchTable(tname), lid, tbls)
            ELSE
                With(MissingColumn(ColumnNames(tbl), sets.conds \o w.conds), LAMBDA missing :
                    IF missing # "" THEN Failed(NoSuchColumn(missing), lid, tbls)
                    ELSE IF Len(params) > w.p - 1 THEN Failed(RangeError, lid, tbls)
                    ELSE
                With({i \in 1..Len(tbl.rows) : Matches(tbl.rows[i], w.conds, params)},
                     LAMBDA hit :
                With([i \in 1..Len(tbl.rows) |->
                        IF i \in hit THEN Changed(tbl.rows[i]) ELSE tbl.rows[i]], LAMBDA rows :
                With(IF hit = {} THEN "" ELSE Violation(tbl, rows), LAMBDA broken :
                    IF broken # "" THEN Failed(broken, lid, tbls)
                    ELSE Result(NoErr, <<>>, Cardinality(hit), lid,
                            ReplaceTable(tbls, ti, [tbl EXCEPT !.rows = rows]))))))))))

RECURSIVE Without(_, _, _)
\* rows without those whose position is in hit
Without(rows, hit, i) ==
    IF i > Len(rows) THEN <<>>
    ELSE (IF i \in hit THEN <<>> ELSE <<rows[i]>>) \o Without(rows, hit, i + 1)

\* DELETE FROM table [WHERE comparisons]
ExecDelete(toks, params, tbls, lid) ==
    With(IF Kw(toks, 4) = "where" THEN ParseConds(toks, 5, 1, "and", <<>>)
         ELSE [ok |-> TRUE, conds |-> <<>>, i |-> 4, p |-> 1], LAMBDA w :
    With(IF Len(toks) >= 3 THEN toks[3] ELSE "", LAMBDA tname :
    With(TableIndex(tbls, tname, 1), LAMBDA ti :
        LET tbl == tbls[ti] IN
        IF ~(Kw(toks, 2) = "from" /\ IsIdent(tname) /\ w.ok /\ w.i = Len(toks) + 1)
            THEN Failed(SyntaxError, lid, tbls)
        ELSE IF ti = 0 THEN Failed(NoSuchTable(tname), lid, tbls)
        ELSE
            With(MissingColumn(ColumnNames(tbl), w.conds), LAMBDA missing :
                IF missing # "" THEN Failed(NoSuchColumn(missing), lid, tbls)
                ELSE IF Len(params) > w.p - 1 THEN Failed(RangeError, lid, tbls)
                ELSE
            With({i \in 1..Len(tbl.rows) : Matches(tbl.rows[i], w.conds, params)},
                 LAMBDA hit :
                Result(NoErr, <<>>, Cardinality(hit), lid,
                    ReplaceTable(tbls, ti,
                        [tbl EXCEPT !.rows = Without(tbl.rows, hit, 1)])))))))

\* DROP TABLE table
ExecDrop(toks, params, tbls, lid) ==
    LET tname == IF Len(toks) >= 3 THEN toks[3] ELSE ""
        ti == TableIndex(tbls, tname, 1)
    IN  IF ~(Len(toks) = 3 /\ Kw(toks, 2) = "table" /\ IsIdent(tname))
            THEN Failed(SyntaxError, lid, tbls)
        ELSE IF ti = 0 THEN Failed(NoSuchTable(tname), lid, tbls)
        ELSE Result(NoErr, <<>>, 0, lid, Without(tbls, {ti}, 1))

\* what the engine does with one statement text and its bound parameters
Exec(sql, params, tbls, lid) ==
    With(FirstStatement(Tokens(sql)), LAMBDA toks :
    With(Kw(toks, 1), LAMBDA verb :
        CASE Len(toks) = 0 -> Result(NoErr, <<>>, 0, lid, tbls)
          [] verb = "select" -> ExecSelect(toks, params, tbls, lid)
          [] verb = "pragma" -> ExecPragma(toks, params, tbls, lid)
          [] verb = "insert" -> ExecInsert(toks, params, tbls, lid)
          [] verb = "update" -> ExecUpdate(toks, params, tbls, lid)
          [] verb = "delete" -> ExecDelete(toks, params, tbls, lid)
          [] verb = "drop" -> ExecDrop(toks, params, tbls, lid)
          [] OTHER -> Failed(SyntaxError, lid, tbls)))

----------------------------------------------------------------------------
(* The database the server is started on *)

UsersTable ==
    [name |-> "users",
     sql |-> "CREATE TABLE users (id INTEGER PRIMARY KEY AUTOINCREMENT, name TEXT NOT NULL)",
     cols |-> <<Column("id", "INTEGER", 0, Null, 1), Column("name", "TEXT", 1, Null, 0)>>,
     rows |-> <<[id |-> Num(1), name |-> Str("a")]>>,
     seq |-> 1]

SeedTables == <<UsersTable>>

\* a table with a composite primary key
PostCategories ==
    [name |-> "post_categories",
     sql |-> "CREATE TABLE post_categories (post_id INTEGER NOT NULL, category_id INTEGER NOT NULL, PRIMARY KEY (post_id, category_id))",
     cols |-> <<Column("post_id", "INTEGER", 1, Null, 1),
                Column("category_id", "INTEGER", 1, Null, 2)>>,
     rows |-> <<>>,
     seq |-> 0]

\* a table of the engine's own, kept by ANALYZE
SqliteStat1 ==
    [name |-> "sqlite_stat1",
     sql |-> "CREATE TABLE sqlite_stat1(tbl,idx,stat)",
     cols |-> <<Column("tbl", "", 0, Null, 0), Column("idx", "", 0, Null, 0),
                Column("stat", "", 0, Null, 0)>>,
     rows |-> <<>>,
     seq |-> 0]

\* a user table whose name begins with sqlite, without the underscore
SqliteLog ==
    [name |-> "sqlitelog",
     sql |-> "CREATE TABLE sqlitelog (msg TEXT)",
     cols |-> <<Column("msg", "TEXT", 0, Null, 0)>>,
     rows |-> <<>>,
     seq |-> 0]

\* a database file with these three tables
CatalogTables == <<PostCategories, SqliteStat1, SqliteLog>>

\* the database files the server is started on
Databases == {SeedTables, CatalogTables}

----------------------------------------------------------------------------
(* JSON.stringify(value, null, 2) *)

Bool(b) == [t |-> "boolean", v |-> b]
Arr(items) == [t |-> "array", v |-> items]

RECURSIVE Json(_, _)
Json(x, ind) ==
    CASE x.t = "string" -> "\"" \o x.v \o "\""
      [] x.t = "number" -> NumToString(x.v)
      [] x.t = "boolean" -> IF x.v THEN "true" ELSE "false"
      [] x.t = "null" -> "null"
      [] x.t = "array" ->
            IF Len(x.v) = 0 THEN "[]"
            ELSE "[\n" \o Join([i \in 1..Len(x.v) |-> ind \o "  " \o Json(x.v[i], ind \o "  ")],
                               ",\n") \o "\n" \o ind \o "]"
      [] x.t = "object" ->
            \* a property whose value is undefined is left out
            LET props == SelectSeq(x.v, LAMBDA pr : pr.v.t # "undefined") IN
            IF Len(props) = 0 THEN "{}"
            ELSE "{\n" \o Join([i \in 1..Len(props) |->
                                    ind \o "  \"" \o props[i].k \o "\": "
                                        \o Json(props[i].v, ind \o "  ")],
                               ",\n") \o "\n" \o ind \o "}"
      [] OTHER -> "null"

JsonStringify(x) == Json(x, "")

\* a result row as the object the driver hands to the callback
RowObject(row, cols) == Obj([k \in 1..Len(cols) |-> Prop(cols[k], row[cols[k]])])
RowObjects(res) == Arr([i \in 1..Len(res.rows) |-> RowObject(res.rows[i], res.cols)])

----------------------------------------------------------------------------
(* Tool calls *)

\* the program that runs: server.ts, dual-server.js, server-persistent.js or
\* http-wrapper.ts
Variants == {"ts", "dual", "persistent", "wrapper"}

\* params.arguments: absent, or an object whose missing properties are undefined
EmptyArgs ==
    [present |-> TRUE, table_name |-> Undefined, query |-> Undefined,
     data |-> Undefined, where |-> Undefined]
NoArgs == [EmptyArgs EXCEPT !.present = FALSE]

\* a tools/call request
Request(name, args) == [method |-> "tools/call", name |-> name, args |-> args]
\* a request of another method: initialize, tools/list
Rpc(method) == [method |-> method, name |-> method, args |-> EmptyArgs]

\* what a piece of the handler ends with: an exception, a statement handed to
\* the database handle, or the text of a successful result
Throw(msg) == [kind |-> "throw", msg |-> msg]
Submit(stmt) == [kind |-> "submit", stmt |-> stmt, saved |-> <<>>]
Resolve(text) == [kind |-> "resolve", text |-> text]

OnlySelect == "Only SELECT queries are allowed for security reasons"

\* a check that lets every query through (faulty variant)
AnyQuery(query) == TRUE

\* runQuery's check: the trimmed, lower-cased query starts with select
ValidateRead(query) == StartsWith(ToLowerCase(Trim(query)), "select")

ListTables == Submit(Stmt("all", ListTablesSql, <<>>))

DescribeTable(tableName) == Submit(Stmt("all", SchemaSql(tableName), <<>>))

\* runQuery without its check (faulty variant)
RunQueryUnchecked(query) ==
    IF query.t # "string" THEN Throw("query.trim is not a function")
    ELSE Submit(Stmt("all", query.v, <<>>))

RunQuery(query) ==
    IF query.t = "undefined"
        THEN Throw("Cannot read properties of undefined (reading 'trim')")
    ELSE IF query.t # "string" THEN Throw("query.trim is not a function")
    ELSE IF ~ValidateRead(query.v) THEN Throw(OnlySelect)
    ELSE Submit(Stmt("all", query.v, <<>>))

InsertRow(tableName, data) ==
    IF KeysThrows(data) THEN Throw(TypeErrorKeys)
    ELSE Submit(Stmt("run", InsertSql(tableName, data), InsertParams(data)))

UpdateRow(tableName, data, where) ==
    IF KeysThrows(data) \/ KeysThrows(where) THEN Throw(TypeErrorKeys)
    ELSE Submit(Stmt("run", UpdateSql(tableName, data, where), UpdateParams(data, where)))

DeleteRow(tableName, where) ==
    IF KeysThrows(where) THEN Throw(TypeErrorKeys)
    ELSE Submit(Stmt("run", DeleteSql(tableName, where), DeleteParams(where)))

\* args?.f
Opt(args, f) == IF args.present THEN args[f] ELSE Undefined

\* !x || typeof x !== 'string'
NotAString(x) == ~Truthy(x) \/ TypeOf(x) # "string"
\* !x || typeof x !== 'object'
NotAnObject(x) == ~Truthy(x) \/ TypeOf(x) # "object"

TableNameRequired == "table_name is required and must be a string"
QueryRequired == "query is required and must be a string"
DataRequired == "data is required and must be an object"
WhereRequired == "where is required and must be an object"
\* the default case without the name (faulty variant)
UnnamedTool(name) == "Unknown tool"
UnknownTool(name) == "Unknown tool: " \o name

\* server.ts: the switch of the tools/call handler, with its argument checks
DispatchTs(name, args) ==
    LET tn == Opt(args, "table_name")
        q == Opt(args, "query")
        d == Opt(args, "data")
        w == Opt(args, "where")
    IN  CASE name = "list_tables" -> ListTables
          [] name = "describe_table" ->
                IF NotAString(tn) THEN Throw(TableNameRequired) ELSE DescribeTable(tn)
          [] name = "run_query" ->
                IF NotAString(q) THEN Throw(QueryRequired) ELSE RunQuery(q)
          [] name = "insert_row" ->
                IF NotAString(tn) THEN Throw(TableNameRequired)
                ELSE IF NotAnObject(d) THEN Throw(DataRequired)
                ELSE InsertRow(tn, d)
          [] name = "update_row" ->
                IF NotAString(tn) THEN Throw(TableNameRequired)
                ELSE IF NotAnObject(d) THEN Throw(DataRequired)
                ELSE IF NotAnObject(w) THEN Throw(WhereRequired)
                ELSE UpdateRow(tn, d, w)
          [] name = "delete_row" ->
                IF NotAString(tn) THEN Throw(TableNameRequired)
                ELSE IF NotAnObject(w) THEN Throw(WhereRequired)
                ELSE DeleteRow(tn, w)
          [] OTHER -> Throw(UnknownTool(name))

\* reading args.f when args is undefined
ReadOfUndefined(f) == "Cannot read properties of undefined (reading '" \o f \o "')"

\* dual-server.js and server-persistent.js: the switch, without argument checks
DispatchJs(name, args) ==
    CASE name = "list_tables" -> ListTables
      [] name = "describe_table" ->
            IF ~args.present THEN Throw(ReadOfUndefined("table_name"))
            ELSE DescribeTable(args.table_name)
      [] name = "run_query" ->
            IF ~args.present THEN Throw(ReadOfUndefined("query")) ELSE RunQuery(args.query)
      [] name = "insert_row" ->
            IF ~args.present THEN Throw(ReadOfUndefined("table_name"))
            ELSE InsertRow(args.table_name, args.data)
      [] name = "update_row" ->
            IF ~args.present THEN Throw(ReadOfUndefined("table_name"))
            ELSE UpdateRow(args.table_name, args.data, args.where)
      [] name = "delete_row" ->
            IF ~args.present THEN Throw(ReadOfUndefined("table_name"))
            ELSE DeleteRow(args.table_name, args.where)
      [] OTHER -> Throw(UnknownTool(name))

Dispatch(v, name, args) ==
    IF v = "ts" THEN DispatchTs(name, args) ELSE DispatchJs(name, args)

\* x === 1
Is1(x) == x.t = "number" /\ x.v = 1

\* describeTable's description object: camelCase keys in server.ts, snake_case
\* in dual-server.js and server-persistent.js
Description(v, tableName, columns, createRows) ==
    LET ts == v = "ts"
        Col(c) ==
            Obj(<<Prop("name", c["name"]),
                  Prop("type", c["type"]),
                  Prop(IF ts THEN "notNull" ELSE "not_null", Bool(Is1(c["notnull"]))),
                  Prop(IF ts THEN "primaryKey" ELSE "primary_key", Bool(Is1(c["pk"]))),
                  Prop(IF ts THEN "defaultValue" ELSE "default_value", c["dflt_value"])>>)
        createSql ==
            IF Len(createRows) > 0 /\ Truthy(createRows[1]["sql"])
            THEN createRows[1]["sql"] ELSE Null
    IN  Obj(<<Prop(IF ts THEN "name" ELSE "table_name", tableName),
              Prop("columns", Arr([k \in 1..Len(columns) |-> Col(columns[k])])),
              Prop(IF ts THEN "createSql" ELSE "create_sql", createSql)>>)

\* the callback of a statement: what the call does with the engine's answer
Complete(v, call, res) ==
    LET n == NumToString(Len(res.rows))
        tn == call.args.table_name
    IN  IF res.err # NoErr THEN Throw(res.err)
        ELSE CASE call.name = "list_tables" ->
                    Resolve("Found " \o n \o " tables:\n"
                        \o Join([i \in 1..Len(res.rows) |->
                                    "- " \o JsString(res.rows[i]["name"])], "\n"))
               [] call.name = "describe_table" /\ call.step = 1 ->
                    [kind |-> "submit", stmt |-> Stmt("get", CreateSql, <<tn>>),
                     saved |-> res.rows]
               [] call.name = "describe_table" /\ call.step = 2 ->
                    Resolve("Table: " \o JsString(tn) \o "\n"
                        \o JsonStringify(Description(v, tn, call.saved, res.rows)))
               [] call.name = "run_query" ->
                    Resolve("Query executed successfully. Found " \o n \o " rows:\n"
                        \o JsonStringify(RowObjects(res)))
               [] call.name = "insert_row" ->
                    Resolve("Row inserted successfully. Last insert ID: "
                        \o NumToString(res.lastID) \o ", Changes: "
                        \o NumToString(res.changes))
               [] call.name = "update_row" ->
                    Resolve("Rows updated successfully. Changes: " \o NumToString(res.changes))
               [] OTHER ->
                    Resolve("Rows deleted successfully. Changes: " \o NumToString(res.changes))

(* The response envelope *)
TextBlock(text) == [type |-> "text", text |-> text]

\* a catch that passes the message on without the prefix (faulty variant)
UnnamedErrorEnvelope(name, msg) == [content |-> <<TextBlock(msg)>>, isError |-> TRUE]

\* a result that carries isError: false (faulty variant)
FlaggedEnvelope(text) == [content |-> <<TextBlock(text)>>, isError |-> FALSE]

\* the handler's catch: isError true and the name of the tool in the text
ErrorEnvelope(name, msg) ==
    [content |-> <<TextBlock("Error executing " \o name \o ": " \o msg)>>, isError |-> TRUE]

\* a successful result: the content alone, no isError property
SuccessEnvelope(text) == [content |-> <<TextBlock(text)>>]

----------------------------------------------------------------------------
(* The requests offered to the server *)

WithTable(tn) == [EmptyArgs EXCEPT !.table_name = tn]
WithQuery(q) == [EmptyArgs EXCEPT !.query = q]
Name(v) == Obj(<<Prop("name", Str(v))>>)
Id(n) == Obj(<<Prop("id", Num(n))>>)

Requests ==
    { Request("list_tables", EmptyArgs),
      Request("list_tables", NoArgs),
      Request("describe_table", WithTable(Str("users"))),
      Request("describe_table", WithTable(Str("post_categories"))),
      Request("describe_table", EmptyArgs),
      Request("run_query", WithQuery(Str("DELETE FROM users"))),
      Request("run_query", WithQuery(Str(" Select * from users\n"))),
      Request("run_query", WithQuery(Str("SELECT 1;DROP TABLE users"))),
      Request("run_query", WithQuery(Str("SELECT * FROM nosuch"))),
      Request("run_query", WithQuery(Str("SELECT * FROM users WHERE name = 'b'"))),
      Request("run_query", WithQuery(Str("selectall"))),
      Request("run_query", WithQuery(Str("DROP TABLE users -- select"))),
      Request("run_query", WithQuery(Num(42))),
      Request("insert_row", [WithTable(Str("users")) EXCEPT !.data = Name("b")]),
      Request("insert_row", [WithTable(Str("users")) EXCEPT !.data = Name("c")]),
      Request("insert_row", [WithTable(Str("users")) EXCEPT
                                !.data = Obj(<<Prop("id", Num(1)), Prop("name", Str("z"))>>)]),
      Request("insert_row", WithTable(Str("users"))),
      Request("insert_row", [WithTable(Str("users")) EXCEPT !.data = Obj(<<>>)]),
      Request("insert_row", [WithTable(Str("users (name) VALUES ('x') --")) EXCEPT
                                !.data = Obj(<<>>)]),
      Request("update_row", [WithTable(Str("users")) EXCEPT !.data = Obj(<<>>), !.where = Id(1)]),
      Request("update_row", [WithTable(Str("users")) EXCEPT
                                !.data = Name("b"), !.where = Obj(<<>>)]),
      Request("delete_row", [WithTable(Str("users")) EXCEPT !.where = Obj(<<>>)]),
      Request("update_row", [WithTable(Str("users")) EXCEPT !.data = Name("b"), !.where = Id(1)]),
      Request("update_row", [WithTable(Str("users")) EXCEPT !.data = Name("c"), !.where = Id(1)]),
      Request("update_row", [WithTable(Str("users")) EXCEPT !.data = Name("c"), !.where = Name("b")]),
      Request("update_row", [WithTable(Str("users")) EXCEPT
                                !.data = Name("c"),
                                !.where = Obj(<<Prop("id", Num(1)), Prop("name", Str("a"))>>)]),
      Request("update_row", [WithTable(Str("users")) EXCEPT !.data = Name("b")]),
      Request("delete_row", [WithTable(Str("users")) EXCEPT !.where = Id(1)]),
      Request("delete_row", [WithTable(Str("users")) EXCEPT !.where = Id(2)]),
      Request("delete_row", [WithTable(Str("users --")) EXCEPT !.where = Obj(<<>>)]),
      Request("delete_row", [WithTable(Num(42)) EXCEPT !.where = Id(1)]),
      Request("drop_table", WithTable(Str("users"))) }

\* the requests of clients that do not wait for each other
ConcurrentRequests ==
    { Request("describe_table", WithTable(Str("users"))),
      Request("run_query", WithQuery(Str(" Select * from users\n"))),
      Request("insert_row", [WithTable(Str("users")) EXCEPT !.data = Name("b")]) }

\* the requests of a stdio session
SessionRequests ==
    { Rpc("initialize"),
      Rpc("tools/list"),
      Request("list_tables", EmptyArgs),
      Request("describe_table", WithTable(Str("users"))) }

----------------------------------------------------------------------------
(* The HTTP routes for /query and /tables/:tableName/insert|update|delete *)

\* a request to one of the routes: req.params.tableName and req.body
HttpRequest(route, tableName, body) ==
    [route |-> route, tableName |-> tableName, body |-> body]

\* what a route does: res.status(400).json(...), or sendMCPMessage(message)
BadRequest(msg) == [status |-> 400, error |-> msg, message |-> Rpc("")]
Forward(req) == [status |-> 0, error |-> "", message |-> req]

\* the routes of a program that forwards every body (faulty variant)
RouteUnchecked(h) ==
    Forward(Request(h.route, [h.body EXCEPT !.table_name = Str(h.tableName)]))

\* dual-server.js: the routes test the fields of the body with !field
RouteDual(h) ==
    LET tn == Str(h.tableName)
        b == h.body
    IN  CASE h.route = "query" ->
                IF ~Truthy(b.query) THEN BadRequest("Query is required")
                ELSE Forward(Request("run_query", WithQuery(b.query)))
          [] h.route = "insert" ->
                IF ~Truthy(b.data) THEN BadRequest("Data is required")
                ELSE Forward(Request("insert_row", [WithTable(tn) EXCEPT !.data = b.data]))
          [] h.route = "update" ->
                IF ~Truthy(b.data) \/ ~Truthy(b.where)
                THEN BadRequest("Data and where conditions are required")
                ELSE Forward(Request("update_row",
                        [WithTable(tn) EXCEPT !.data = b.data, !.where = b.where]))
          [] OTHER ->
                IF ~Truthy(b.where) THEN BadRequest("Where conditions are required")
                ELSE Forward(Request("delete_row", [WithTable(tn) EXCEPT !.where = b.where]))

\* http-wrapper.ts: the routes test the type of the fields as well
RouteWrapper(h) ==
    LET tn == Str(h.tableName)
        b == h.body
    IN  CASE h.route = "query" ->
                IF NotAString(b.query) THEN BadRequest("Query is required and must be a string")
                ELSE Forward(Request("run_query", WithQuery(b.query)))
          [] h.route = "insert" ->
                IF NotAnObject(b.data) THEN BadRequest("Data is required and must be an object")
                ELSE Forward(Request("insert_row", [WithTable(tn) EXCEPT !.data = b.data]))
          [] h.route = "update" ->
                IF NotAnObject(b.data) THEN BadRequest("Data is required and must be an object")
                ELSE IF NotAnObject(b.where)
                    THEN BadRequest("Where clause is required and must be an object")
                ELSE Forward(Request("update_row",
                        [WithTable(tn) EXCEPT !.data = b.data, !.where = b.where]))
          [] OTHER ->
                IF NotAnObject(b.where)
                THEN BadRequest("Where clause is required and must be an object")
                ELSE Forward(Request("delete_row", [WithTable(tn) EXCEPT !.where = b.where]))

Route(v, h) == IF v = "wrapper" THEN RouteWrapper(h) ELSE RouteDual(h)

HttpRequests ==
    { HttpRequest("query", "", EmptyArgs),
      HttpRequest("query", "", WithQuery(Str(" Select * from users\n"))),
      HttpRequest("query", "", WithQuery(Num(42))),
      HttpRequest("insert", "users", EmptyArgs),
      HttpRequest("insert", "users", [EmptyArgs EXCEPT !.data = Name("b")]),
      HttpRequest("update", "users", [EmptyArgs EXCEPT !.data = Name("b")]),
      HttpRequest("update", "users", [EmptyArgs EXCEPT !.where = Id(1)]),
      HttpRequest("update", "users", [EmptyArgs EXCEPT !.data = Name("b"), !.where = Id(1)]),
      HttpRequest("delete", "users", EmptyArgs),
      HttpRequest("delete", "users", [EmptyArgs EXCEPT !.where = Id(2)]) }

\* no exchange yet
NoExchange == [request |-> HttpRequest("", "", EmptyArgs), status |-> 0, sent |-> FALSE]

----------------------------------------------------------------------------
(* The server process *)

Slots == 1..MaxInFlight

NoStmt == Stmt("", "", <<>>)
NoEnvelope == [content |-> <<>>]

\* a tool call the handler has just been entered for; sqls lists the statement
\* texts handed to the database handle on its behalf and finished how many of
\* them have completed; raised tells whether an exception reached the handler's
\* catch, and error is its message; id is the id of its JSON-RPC request in a
\* stdio session
NewCall(name, args, tr) ==
    [name |-> name, args |-> args, transport |-> tr, pc |-> "new", step |-> 1,
     stmt |-> NoStmt, saved |-> <<>>, env |-> NoEnvelope, raised |-> FALSE,
     error |-> "", sqls |-> <<>>, finished |-> 0, id |-> 0]

\* a slot no call occupies
FreeSlot == [NewCall("", EmptyArgs, "") EXCEPT !.pc = "free"]

\* the call after a piece of the handler ended with out
Settle(call, out) ==
    CASE out.kind = "throw" ->
            [call EXCEPT !.pc = "done", !.stmt = NoStmt, !.raised = TRUE,
                         !.error = out.msg, !.env = ErrorEnvelope(call.name, out.msg)]
      [] out.kind = "submit" ->
            [call EXCEPT !.pc = "waiting", !.stmt = out.stmt, !.saved = out.saved,
                         !.step = IF call.pc = "waiting" THEN 2 ELSE 1,
                         !.sqls = Append(@, out.stmt.sql)]
      [] OTHER ->
            [call EXCEPT !.pc = "done", !.stmt = NoStmt, !.env = SuccessEnvelope(out.text)]

\* the transports a program connects to its MCP server; server-persistent.js
\* connects none, and http-wrapper.ts has no MCP server of its own
Transports(v) ==
    CASE v = "ts" -> {"stdio"}
      [] v = "dual" -> {"stdio", "http"}
      [] OTHER -> {}

\* a check of the handle's state instead of the field (faulty variant)
NotOpen(handle) == handle # "open"

\* a handler that never connects (faulty variant)
Connectionless(handle) == FALSE

\* if (!this.db)
NeedsConnect(handle) == handle = "null"

\* connectDatabase() called without await (faulty variant)
Unawaited(call) == Settle(call, Dispatch(variant, call.name, call.args))

\* await this.connectDatabase(): the handler is suspended until it settles
AwaitConnect(call) == [call EXCEPT !.pc = "connecting"]

\* the rowids assigned so far, over all tables
Assigned(tbls) ==
    LET RECURSIVE Sum(_)
        Sum(i) == IF i > Len(tbls) THEN 0 ELSE tbls[i].seq + Sum(i + 1)
    IN  Sum(1)

Inserting == {s \in Slots : calls[s].pc # "free" /\ calls[s].name = "insert_row"}

\* http-wrapper.ts before its first request: this.mcpServer = null. proc is
\* "none", "running" or, once its stdout has ended and its exit is not yet
\* reported, "ended"; msg is the id of the message written to its stdin, which
\* is ended right after; replied tells whether it has written its response;
\* waiting are the requests whose listeners are attached to its stdout, heard
\* those attached before the response was written; answers[i] is what the
\* i-th request was answered: 0 nothing yet, k the response to message k,
\* -1 a failure (status 500)
NoChild ==
    [proc |-> "none", msg |-> 0, replied |-> FALSE, waiting |-> {}, heard |-> {},
     sent |-> 0, answers |-> <<>>]

\* a wrapper that spawns a server for every message (faulty variant)
SpawnEach(c) ==
    [proc |-> "running", msg |-> c.sent + 1, replied |-> FALSE,
     waiting |-> {c.sent + 1}, heard |-> {c.sent + 1},
     sent |-> c.sent + 1, answers |-> Append(c.answers, 0)]

\* sendMCPMessage: the server is spawned if this.mcpServer is unset; the
\* listeners of the request are attached to the stdout of this.mcpServer, and
\* the message is written to its stdin, which is then ended
SendMCPMessage(c) ==
    IF c.proc = "none"
    THEN [proc |-> "running", msg |-> c.sent + 1, replied |-> FALSE,
          waiting |-> {c.sent + 1}, heard |-> {c.sent + 1},
          sent |-> c.sent + 1, answers |-> Append(c.answers, 0)]
    ELSE [c EXCEPT !.waiting = IF c.proc = "running" THEN @ \cup {c.sent + 1} ELSE @,
                   !.heard = IF c.proc = "running" /\ ~c.replied
                             THEN @ \cup {c.sent + 1} ELSE @,
                   !.sent = @ + 1,
                   !.answers = Append(@, 0)]

\* the outcomes of stdin.write on the server's stdin: the first write of a
\* server succeeds; a write after stdin.end() is lost, and where the stream
\* reports it as an 'error' event, which has no listener, the wrapper ends
WriteOutcomes(c) == IF c.proc = "none" THEN {"running"} ELSE {"running", "crashed"}

\* no request sent, no response written, no line left unread
NoSession == [sent |-> 0, out |-> <<>>, unread |-> 0]

\* the state after construction, for the clients of workload w
Start(w) ==
    /\ variant \in Variants
    /\ workload = w
    /\ proc = IF variant = "persistent" THEN "starting" ELSE "running"
    /\ db = "null"
    /\ connects = 0
    /\ conn = [owner |-> 0, stage |-> "idle"]
    /\ tables \in (IF w = "serial" THEN Databases ELSE {SeedTables})
    /\ lastID = 0
    /\ calls = [s \in Slots |-> FreeSlot]
    /\ http = NoExchange
    /\ stdio = NoSession
    /\ child = NoChild

\* a client that awaits each response before its next request
Init == Start("serial")

\* clients that send requests while earlier ones are being served
InitConcurrent == Start("concurrent")

\* one client that writes its requests to the server's stdin one after another
InitSession == Start("session")

\* the requests the clients of the workload send
Offered ==
    CASE workload = "serial" -> Requests
      [] workload = "concurrent" -> ConcurrentRequests
      [] OTHER -> SessionRequests

\* the requests the clients send to the HTTP routes
HttpOffered ==
    IF workload = "serial" \/ variant = "wrapper" THEN HttpRequests
    ELSE {HttpRequest("query", "", EmptyArgs)}

\* the calls being served
Serving == {s \in Slots : calls[s].pc # "free"}

\* the process has not exited
Alive == proc \in {"starting", "running"}

\* the id of the next request of the session
NextId(n) == n + 1

\* a handler has returned and its response is not written yet: the promise
\* jobs that write it run before the event loop takes up the next event
Draining == \E s \in Slots : calls[s].pc = "done"

\* The handler is entered for a request and runs up to its first await: the
\* lazy connect, or the switch and the first statement of the tool
Enter(req, tr) ==
    /\ \E s \in Slots : calls[s].pc = "free"
    /\ workload = "serial" => Serving = {}
    /\ req.name = "insert_row" => Assigned(tables) + Cardinality(Inserting) < MaxRows
    /\ LET s == Min({x \in Slots : calls[x].pc = "free"})
           \* POST /tools/:toolName defaults a missing arguments object to {}
           args == IF tr = "http" /\ ~req.args.present THEN EmptyArgs ELSE req.args
           call == [NewCall(req.name, args, tr) EXCEPT
                        !.id = IF workload = "session" THEN NextId(stdio.sent) ELSE 0]
       IN  IF NeedsConnect(db)
           THEN /\ db' = "opening"
                /\ connects' = connects + 1
                /\ conn' = [owner |-> s, stage |-> "open"]
                /\ calls' = [calls EXCEPT ![s] = AwaitConnect(call)]
           ELSE /\ calls' = [calls EXCEPT ![s] = Settle(call, Dispatch(variant, req.name, args))]
                /\ UNCHANGED <<db, connects, conn>>
    /\ UNCHANGED <<variant, workload, proc, tables, lastID>>

\* a response written twice (faulty variant)
EmitTwice(out, id) == out \o <<id, id>>

\* the transport writes the response, which carries the id of its request
Emit(out, id) == Append(out, id)

\* A request reaches the MCP server over one of its transports: a line on
\* stdin, or POST /tools/:toolName. A tools/call enters the handler; initialize
\* is answered by the SDK's server and tools/list by its own handler, neither
\* of which awaits anything, so their response is written at once
Arrive(req, tr) ==
    /\ proc = "running"
    /\ ~Draining
    /\ tr \in Transports(variant)
    /\ req \in Offered
    /\ workload = "session" => tr = "stdio" /\ stdio.sent < MaxRequests
    /\ IF req.method = "tools/call"
       THEN /\ Enter(req, tr)
            /\ stdio' = IF workload = "session" THEN [stdio EXCEPT !.sent = NextId(@)]
                        ELSE stdio
       ELSE /\ stdio' = [stdio EXCEPT !.sent = NextId(@), !.out = Emit(@, NextId(stdio.sent))]
            /\ UNCHANGED <<variant, workload, proc, db, connects, conn, tables, lastID, calls>>
    /\ UNCHANGED <<http, child>>

\* A request to one of the routes for /query and the tables: the route answers
\* 400, or passes a tools/call message on: dual-server.js to its own MCP
\* server, http-wrapper.ts to the stdin of the server it spawns
Http(h) ==
    /\ proc = "running"
    /\ ~Draining
    /\ variant \in {"dual", "wrapper"}
    /\ h \in HttpOffered
    /\ \E r \in {Route(variant, h)} :
        /\ http' = [request |-> h, status |-> r.status, sent |-> r.status # 400]
        /\ IF r.status = 400
           THEN UNCHANGED <<variant, workload, proc, db, connects, conn, tables, lastID,
                            calls, child>>
           ELSE IF variant = "wrapper"
           THEN /\ child.sent < MaxRequests
                /\ workload = "serial" => \A i \in 1..child.sent : child.answers[i] # 0
                /\ child' = SendMCPMessage(child)
                /\ proc' \in WriteOutcomes(child)
                /\ UNCHANGED <<variant, workload, db, connects, conn, tables, lastID, calls>>
           ELSE Enter(r.message, "http") /\ UNCHANGED child
    /\ UNCHANGED stdio

\* The server that http-wrapper.ts spawned, a server.ts, serves the message it
\* read from its stdin and writes the response to its stdout
ChildReplies ==
    /\ proc = "running"
    /\ child.proc = "running"
    /\ ~child.replied
    /\ child' = [child EXCEPT !.replied = TRUE]
    /\ UNCHANGED <<variant, workload, proc, db, connects, conn, tables, lastID, calls,
                   http, stdio>>

\* what a request that waited for the end of the server's stdout is answered:
\* the response it heard, or a failure to parse what it did not hear
Parsed(c, i) == IF i \in c.heard THEN c.msg ELSE -1

\* The server that http-wrapper.ts spawned has ended, its stdin being at its
\* end: its stdout ends, and every request waiting for that parses the output
\* it has collected and is answered. The exit of the server is reported with
\* it or after it
ChildEnds ==
    /\ proc = "running"
    /\ child.proc = "running"
    /\ child.replied
    /\ \E reported \in {"none", "ended"} :
        child' = [child EXCEPT
                    !.proc = reported,
                    !.answers = [i \in 1..Len(@) |->
                                    IF i \in child.waiting THEN Parsed(child, i) ELSE @[i]],
                    !.waiting = {},
                    !.heard = {}]
    /\ UNCHANGED <<variant, workload, proc, db, connects, conn, tables, lastID, calls,
                   http, stdio>>

\* The 'exit' event of the server: this.mcpServer = null
ChildExit ==
    /\ proc = "running"
    /\ child.proc = "ended"
    /\ child' = [child EXCEPT !.proc = "none"]
    /\ UNCHANGED <<variant, workload, proc, db, connects, conn, tables, lastID, calls,
                   http, stdio>>

\* A line is written to the stdin of a process that has connected no transport
\* to it: nothing reads it
Unread(req) ==
    /\ proc = "running"
    /\ variant = "persistent"
    /\ "stdio" \notin Transports(variant)
    /\ req \in Offered
    /\ stdio.unread < MaxRequests
    /\ stdio' = [stdio EXCEPT !.unread = @ + 1]
    /\ UNCHANGED <<variant, workload, proc, db, connects, conn, tables, lastID, calls, http,
                   child>>

\* server-persistent.js: run() connects before anything else
StartPersistent ==
    /\ proc = "starting"
    /\ db = "null"
    /\ db' = "opening"
    /\ connects' = connects + 1
    /\ conn' = [owner |-> 0, stage |-> "open"]
    /\ UNCHANGED <<variant, workload, proc, tables, lastID, calls, http, stdio, child>>

\* the statement texts of the call that runs connectDatabase, one more
Charged(cs, text) ==
    IF conn.owner = 0 THEN cs
    ELSE [cs EXCEPT ![conn.owner].sqls = Append(@, text)]

\* one more statement of call has completed
Finished(call) == [call EXCEPT !.finished = @ + 1]

\* a statement of the call that runs connectDatabase has completed
Completed(cs) ==
    IF conn.owner = 0 THEN cs ELSE [cs EXCEPT ![conn.owner] = Finished(@)]

\* The open callback without an error: PRAGMA foreign_keys = ON is run
OpenSucceeds ==
    /\ Alive
    /\ ~Draining
    /\ db = "opening"
    /\ conn.stage = "open"
    /\ db' = "open"
    /\ conn' = [conn EXCEPT !.stage = "fk"]
    /\ calls' = Charged(calls, PragmaForeignKeys)
    /\ UNCHANGED <<variant, workload, proc, connects, tables, lastID, http, stdio, child>>

CantOpen == "SQLITE_CANTOPEN: unable to open database file"

\* The open callback with an error: connectDatabase rejects; the tool call that
\* awaited it lands in the catch, run() of server-persistent.js exits with 1
OpenFails ==
    /\ Alive
    /\ ~Draining
    /\ db = "opening"
    /\ conn.stage = "open"
    /\ db' = "failed"
    /\ conn' = [conn EXCEPT !.stage = "failed"]
    /\ IF conn.owner = 0
       THEN proc' = "exit1" /\ UNCHANGED calls
       ELSE /\ calls' = [calls EXCEPT ![conn.owner] = Settle(@, Throw(CantOpen))]
            /\ UNCHANGED proc
    /\ UNCHANGED <<variant, workload, connects, tables, lastID, http, stdio, child>>

\* connectDatabase resolves: the awaiting handler goes on to its switch
Connected ==
    /\ conn' = [conn EXCEPT !.stage = "done"]
    /\ IF conn.owner = 0
       THEN proc' = "running" /\ UNCHANGED calls
       ELSE /\ calls' = [calls EXCEPT ![conn.owner] =
                            Settle(Finished(@), Dispatch(variant, @.name, @.args))]
            /\ UNCHANGED proc

\* The callback of a connection PRAGMA; its error is logged and nothing else.
\* server.ts and server-persistent.js go on to PRAGMA journal_mode = WAL
PragmaDone ==
    /\ Alive
    /\ ~Draining
    /\ db = "open"
    /\ \/ /\ conn.stage = "fk"
          /\ variant # "dual"
          /\ conn' = [conn EXCEPT !.stage = "wal"]
          /\ calls' = Charged(Completed(calls), PragmaWal)
          /\ UNCHANGED proc
       \/ /\ conn.stage = "fk"
          /\ variant = "dual"
          /\ Connected
       \/ /\ conn.stage = "wal"
          /\ Connected
    /\ UNCHANGED <<variant, workload, db, connects, tables, lastID, http, stdio, child>>

\* The engine finishes the statement of call s and its callback runs
StmtDone(s) ==
    /\ Alive
    /\ ~Draining
    /\ db = "open"
    /\ calls[s].pc = "waiting"
    /\ \E res \in {Exec(calls[s].stmt.sql, calls[s].stmt.params, tables, lastID)} :
        /\ tables' = res.tables
        /\ lastID' = res.lastID
        /\ calls' = [calls EXCEPT ![s] = Settle(Finished(@), Complete(variant, @, res))]
    /\ UNCHANGED <<variant, workload, proc, db, connects, conn, http, stdio, child>>

\* The handler of call s returns and the transport sends its result
Respond(s) ==
    /\ Alive
    /\ calls[s].pc = "done"
    /\ calls' = [calls EXCEPT ![s] = FreeSlot]
    /\ stdio' = IF calls[s].id = 0 THEN stdio
                ELSE [stdio EXCEPT !.out = Emit(@, calls[s].id)]
    /\ UNCHANGED <<variant, workload, proc, db, connects, conn, tables, lastID, http, child>>

\* signal handlers that are installed from the start (faulty variant)
AlwaysHandles(v, p) == TRUE

\* the process has handlers for SIGINT and SIGTERM: run() of server.ts installs
\* them once its transport is connected, run() of server-persistent.js once
\* the database is connected; dual-server.js and http-wrapper.ts install none
Handles(v, p) == v \in {"ts", "persistent"} /\ p = "running"

\* the state of the handle when the process exits right after cleanup() has
\* called this.db.close(callback) on it: the close is carried out by the driver
\* behind the statements it still holds and off the main thread, and exit does
\* not wait for it, so an idle open handle is being closed ("closing") or, if
\* the driver was quick, closed; a handle with statements in flight is being
\* closed. A handle that is not open is left as it is.
Cleanup(d, busy) ==
    IF d # "open" THEN {d}
    ELSE IF busy THEN {"closing"}
    ELSE {"closing", "closed"}

\* SIGINT or SIGTERM is delivered: the handler calls cleanup(), which starts
\* closing the handle, and then process.exit(0); without a handler the signal
\* terminates the process. The calls being served end with the process.
Signal(sig) ==
    /\ Alive
    /\ proc' = IF Handles(variant, proc) THEN "exit0" ELSE "killed"
    /\ db' \in IF Handles(variant, proc)
                THEN Cleanup(db, conn.stage \in {"fk", "wal"}
                                    \/ \E s \in Slots : calls[s].pc = "waiting")
                ELSE {db}
    /\ calls' = [s \in Slots |-> FreeSlot]
    /\ UNCHANGED <<variant, workload, connects, conn, tables, lastID, http, stdio, child>>

Next ==
    \/ \E req \in Requests \cup ConcurrentRequests \cup SessionRequests,
          tr \in {"stdio", "http"} : Arrive(req, tr)
    \/ \E h \in HttpRequests : Http(h)
    \/ \E req \in Requests \cup ConcurrentRequests \cup SessionRequests : Unread(req)
    \/ ChildReplies
    \/ ChildEnds
    \/ ChildExit
    \/ StartPersistent
    \/ OpenSucceeds
    \/ OpenFails
    \/ PragmaDone
    \/ \E s \in Slots : StmtDone(s)
    \/ \E s \in Slots : Respond(s)
    \/ \E sig \in {"SIGINT", "SIGTERM"} : Signal(sig)

Spec == Init /\ [][Next]_vars

SpecConcurrent == InitConcurrent /\ [][Next]_vars

SpecSession == InitSession /\ [][Next]_vars

\* StmtDone(s) can be taken: the handle is open and call s awaits a statement
StmtReady(s) == Alive /\ ~Draining /\ db = "open" /\ calls[s].pc = "waiting"

\* the driver completes every statement it was given, however many other
\* statements complete in between: strong fairness of StmtDone(s),
\* SF_vars(StmtDone(s)), written out with the condition under which the step
\* can be taken and the mark it leaves on call s
StmtFair(s) ==
    \/ <>[]~StmtReady(s)
    \/ []<><<StmtReady(s) /\ calls'[s].finished = calls[s].finished + 1>>_vars

\* what the driver, the event loop and a spawned server are assumed to do in
\* the end: an open completes or fails, a statement on an open handle
\* completes, a returned result is written, a spawned server serves its message
\* and ends
Fairness ==
    /\ WF_vars(StartPersistent)
    /\ SF_vars(OpenSucceeds \/ OpenFails)
    /\ SF_vars(PragmaDone)
    /\ \A s \in Slots : StmtFair(s)
    /\ \A s \in Slots : WF_vars(Respond(s))
    /\ WF_vars(ChildReplies)
    /\ WF_vars(ChildEnds)
    /\ WF_vars(ChildExit)

SpecLive == InitConcurrent /\ [][Next]_vars /\ Fairness

----------------------------------------------------------------------------
(* Properties *)

\* the calls whose handler has returned
Done == {s \in Slots : calls[s].pc = "done"}

\* the statement texts handed to the database handle on behalf of a call
Texts(call) == {call.sqls[i] : i \in 1..Len(call.sqls)}

\* the statements of connectDatabase
ConnectionSql == {PragmaForeignKeys, PragmaWal}

HasFlag(env) == "isError" \in DOMAIN env
Failure(env) == HasFlag(env) /\ env.isError = TRUE
OneTextBlock(env) == Len(env.content) = 1 /\ env.content[1].type = "text"
Text(env) == env.content[1].text

\* the step is one of call s, which is being served after it
StepOf(s) == calls'[s] # calls[s] /\ calls'[s].pc # "free"

NotASelect(call) ==
    /\ call.pc # "free"
    /\ call.name = "run_query"
    /\ call.args.query.t = "string"
    /\ ~StartsWith(ToLowerCase(Trim(call.args.query.v)), "select")

Operations ==
    {"list_tables", "describe_table", "run_query", "insert_row", "update_row", "delete_row"}

\* C3 as stated: a call of an unknown tool ends with isError true and the text
\* "Unknown tool: <name>", and no statement is executed.
C3_UnknownToolText ==
    \A s \in Done :
        calls[s].name \notin Operations =>
            /\ Failure(calls[s].env)
            /\ Text(calls[s].env) = "Unknown tool: " \o calls[s].name
            /\ calls[s].sqls = <<>>

\* C3, amended: a call of an unknown tool ends with isError true and the text
\* "Error executing <name>: Unknown tool: <name>" (or the error of the
\* connection it tried to open); the only statements run for it are those of
\* connectDatabase when it is the call that connects.
C3_UnknownToolRejected ==
    \A s \in Slots :
        calls[s].pc # "free" /\ calls[s].name \notin Operations =>
            /\ Texts(calls[s]) \subseteq ConnectionSql
            /\ calls[s].pc # "waiting"
            /\ calls[s].pc = "done" =>
                /\ Failure(calls[s].env)
                /\ \/ Text(calls[s].env) =
                        "Error executing " \o calls[s].name \o ": Unknown tool: "
                            \o calls[s].name
                   \/ /\ Text(calls[s].env) =
                            "Error executing " \o calls[s].name \o ": " \o CantOpen
                      /\ db = "failed"

\* drop_table was answered with the prefixed text
C3_Witness ==
    \E s \in Done :
        /\ calls[s].name = "drop_table"
        /\ Text(calls[s].env) = "Error executing drop_table: Unknown tool: drop_table"

\* the operations that take each argument
TakesTable == {"describe_table", "insert_row", "update_row", "delete_row"}
TakesData == {"insert_row", "update_row"}
TakesWhere == {"update_row", "delete_row"}

\* a required argument of the call is missing or has the wrong shape
Malformed(call) ==
    /\ call.pc # "free"
    /\ \/ call.name \in TakesTable /\ Opt(call.args, "table_name").t # "string"
       \/ call.name = "run_query" /\ Opt(call.args, "query").t # "string"
       \/ call.name \in TakesData /\ Opt(call.args, "data").t # "object"
       \/ call.name \in TakesWhere /\ Opt(call.args, "where").t # "object"

\* C4: in every server variant, a call whose required argument is missing or
\* has the wrong shape ends with isError true and a text naming the operation,
\* and no statement of the tool is built or executed for it.
C4_MalformedRejected ==
    \A s \in Slots :
        Malformed(calls[s]) =>
            /\ Texts(calls[s]) \subseteq ConnectionSql
            /\ calls[s].pc = "done" =>
                /\ Failure(calls[s].env)
                /\ StartsWith(Text(calls[s].env), "Error executing " \o calls[s].name)

\* C5 as stated: every envelope has exactly one text block and a boolean
\* isError, true exactly when the operation failed and false when it succeeded.
C5_BooleanFlag ==
    \A s \in Done :
        /\ OneTextBlock(calls[s].env)
        /\ HasFlag(calls[s].env)
        /\ calls[s].env.isError \in BOOLEAN
        /\ calls[s].env.isError <=> calls[s].raised

\* C5, amended: every envelope has exactly one text block; isError is present
\* and true exactly when the operation failed, and the envelope of a success
\* has no isError property.
C5_FlagOnlyOnFailure ==
    \A s \in Done :
        /\ OneTextBlock(calls[s].env)
        /\ calls[s].raised => Failure(calls[s].env)
        /\ ~calls[s].raised => DOMAIN calls[s].env = {"content"}

\* an insert succeeded and its envelope is the content alone
C5_Witness ==
    \E s \in Done :
        /\ calls[s].name = "insert_row"
        /\ ~calls[s].raised
        /\ DOMAIN calls[s].env = {"content"}
        /\ Text(calls[s].env) = "Row inserted successfully. Last insert ID: 2, Changes: 1"

\* C6: no step of a run_query call changes the rows or the schema of a table,
\* whether its query is rejected, fails or succeeds.
C6_RunQueryReadsOnly ==
    [][\A s \in Slots : StepOf(s) /\ calls'[s].name = "run_query" => tables' = tables]_vars

\* a query with a second statement after the SELECT was run and answered
C6_Witness ==
    \E s \in Done :
        /\ calls[s].name = "run_query"
        /\ calls[s].args.query = Str("SELECT 1;DROP TABLE users")
        /\ "SELECT 1;DROP TABLE users" \in Texts(calls[s])
        /\ ~calls[s].raised
        /\ tables = SeedTables

Writes == {"insert_row", "update_row", "delete_row"}

\* the key names of an argument, or its type when it is not an object
Shape(x) == IF x.t = "object" THEN <<"object", ObjectKeys(x)>> ELSE <<x.t>>

\* request r differs from the call at most in the values of data and where
SameButValues(r, call) ==
    /\ r.name = call.name
    /\ r.args.present = call.args.present
    /\ r.args.table_name = call.args.table_name
    /\ Shape(r.args.data) = Shape(call.args.data)
    /\ Shape(r.args.where) = Shape(call.args.where)

\* the values of data, then those of where, as the operation takes them
ValuesOf(call) ==
    (IF call.name \in TakesData THEN ObjectValues(call.args.data) ELSE <<>>)
        \o (IF call.name \in TakesWhere THEN ObjectValues(call.args.where) ELSE <<>>)

\* C7: the SQL text of an insert_row, update_row or delete_row call is the one
\* every request with the same table name and the same key names produces,
\* whatever its values, and the values are the positional parameters; no
\* statement text held by one call differs from another's by a value.
C7_ValuesOnlyAsParameters ==
    \A s \in Slots :
        calls[s].pc = "waiting" /\ calls[s].name \in Writes =>
            /\ calls[s].stmt.params = ValuesOf(calls[s])
            /\ \A r \in Requests :
                SameButValues(r, calls[s]) =>
                    /\ Dispatch(variant, r.name, r.args).kind = "submit"
                    /\ Dispatch(variant, r.name, r.args).stmt.sql = calls[s].stmt.sql

\* the statement of insert_row {name: "c"}, a request that has a twin with
\* another value, is in flight with the value as its only parameter
C7_Witness ==
    \E s \in Slots :
        /\ calls[s].pc = "waiting"
        /\ calls[s].name = "insert_row"
        /\ calls[s].stmt.sql = "INSERT INTO users (name) VALUES (?)"
        /\ calls[s].stmt.params = <<Str("c")>>
        /\ \E r \in Requests :
            SameButValues(r, calls[s]) /\ r.args.data # calls[s].args.data

\* the allow-list: non-empty, letters, digits and underscore only, no keyword
AllowListed(x) ==
    /\ x.t = "string"
    /\ x.v # ""
    /\ AllIn(ToLowerCase(x.v), IdentChars)
    /\ ToLowerCase(x.v) \notin Keywords

\* the names the call interpolates: its table name and the keys of data, where
Interpolated(call) ==
    {call.args.table_name}
        \cup (IF call.name \in TakesData /\ call.args.data.t = "object"
              THEN {Str(ObjectKeys(call.args.data)[i]) :
                        i \in 1..Len(ObjectKeys(call.args.data))}
              ELSE {})
        \cup (IF call.name \in TakesWhere /\ call.args.where.t = "object"
              THEN {Str(ObjectKeys(call.args.where)[i]) :
                        i \in 1..Len(ObjectKeys(call.args.where))}
              ELSE {})

\* C8: a describe_table, insert_row, update_row or delete_row call whose
\* table name or data/where key fails the allow-list is rejected, and no
\* statement holding that name is executed.
C8_IdentifiersAllowListed ==
    \A s \in Slots :
        /\ calls[s].pc # "free"
        /\ calls[s].name \in TakesTable
        /\ ~Malformed(calls[s])
        /\ \E x \in Interpolated(calls[s]) : ~AllowListed(x)
        => /\ Texts(calls[s]) \subseteq ConnectionSql
           /\ calls[s].pc = "done" => Failure(calls[s].env)

\* C8's failing call: delete_row on "users --" with an empty where emptied the
\* table and was answered as a success
C8_Injected ==
    \E s \in Done :
        /\ calls[s].name = "delete_row"
        /\ calls[s].args.table_name = Str("users --")
        /\ ~calls[s].raised
        /\ tables[1].rows = <<>>

\* C9: a database handle is constructed at most once per process; once
\* this.db is set it is never cleared or assigned again, an open handle stays
\* open until the process shuts down and a handle that failed to open is not
\* opened again.
C9_ConnectedOnce ==
    [][/\ connects' <= 1
       /\ db # "null" => db' # "null" /\ connects' = connects
       /\ db = "open" => db' = "open" \/ proc' = "exit0"
       /\ db = "failed" => db' = "failed"]_vars

\* a second call arrived while the first was still opening the database, and
\* its statement waits on the one handle
C9_Witness ==
    \E s \in Slots :
        /\ calls[s].pc = "waiting"
        /\ conn.owner # s
        /\ db = "opening"
        /\ connects = 1

\* the statements handed to the handle on behalf of a call and not completed
InFlight(call) == Len(call.sqls) - call.finished

\* the statements handed to the handle and not completed
AllInFlight ==
    Cardinality({s \in Slots : calls[s].pc = "waiting"})
        + (IF conn.stage \in {"fk", "wal"} THEN 1 ELSE 0)

\* C10 as stated: in the dual server at most one statement is in flight on the
\* shared handle at any time.
C10_OneStatementInFlight == variant = "dual" => AllInFlight <= 1

\* C10, amended: each tool call has at most one statement in flight at a time
\* (the PRAGMAs of the connection it opens included); statements of different
\* calls may be in flight together.
C10_OneStatementPerCall ==
    \A s \in Slots :
        calls[s].pc # "free" =>
            /\ InFlight(calls[s]) \in {0, 1}
            /\ InFlight(calls[s]) = 1 <=>
                \/ calls[s].pc = "waiting"
                \/ calls[s].pc = "connecting" /\ conn.owner = s /\ conn.stage \in {"fk", "wal"}

\* in the dual server a call over stdio and a call over HTTP each have a
\* statement in flight
C10_Witness ==
    /\ variant = "dual"
    /\ \E s, t \in Slots :
        /\ calls[s].pc = "waiting" /\ calls[s].transport = "stdio"
        /\ calls[t].pc = "waiting" /\ calls[t].transport = "http"
        /\ InFlight(calls[s]) = 1 /\ InFlight(calls[t]) = 1
        /\ db = "open"

\* the handler's switch ends the call with an exception: its arguments, its
\* query or its tool name is rejected before a statement is built
Rejected(call) ==
    call.pc # "free" /\ Dispatch(variant, call.name, call.args).kind = "throw"

\* the moves of a call: it connects only on entry, a statement is awaited
\* before the next, and the envelope is the last thing before the slot is free
PhaseSteps ==
    { <<"free", "connecting">>, <<"free", "waiting">>, <<"free", "done">>,
      <<"connecting", "connecting">>, <<"connecting", "waiting">>,
      <<"connecting", "done">>, <<"waiting", "waiting">>, <<"waiting", "done">>,
      <<"done", "free">> }

SqlLiteral(x) == IF x.t = "string" THEN "'" \o x.v \o "'" ELSE JsString(x)

\* the query that selects the rows of a table equal to the values of data
SelectBack(tableName, data) ==
    "SELECT * FROM " \o tableName.v \o " WHERE "
        \o Join([i \in 1..Len(ObjectKeys(data)) |->
                    ObjectKeys(data)[i] \o " = " \o SqlLiteral(ObjectValues(data)[i])],
                " AND ")

\* the row has the values of data
Carries(row, data) ==
    \A i \in 1..Len(data.v) :
        data.v[i].k \in DOMAIN row /\ row[data.v[i].k] = data.v[i].v

\* the rows of the table named tableName
RowsOf(tbls, tableName) == tbls[TableIndex(tbls, tableName.v, 1)].rows

\* the statement of insert_row call s completes without an error
InsertSucceeds(s) ==
    /\ calls[s].name = "insert_row"
    /\ calls[s].pc = "waiting"
    /\ calls'[s].pc = "done"
    /\ ~calls'[s].raised

\* C12: when an insert_row succeeds on a table of the database (table_name
\* is the name of one) none of whose rows had the
\* values of data, its text reports Changes: 1 and the rowid the engine
\* assigned, and a run_query selecting the rows equal to the inserted values
\* then returns exactly one row, which carries those values.
C12_InsertedRowIsFound ==
    [][\A s \in Slots :
        /\ InsertSucceeds(s)
        /\ TableIndex(tables, calls[s].args.table_name.v, 1) # 0
        /\ \A i \in 1..Len(RowsOf(tables, calls[s].args.table_name)) :
                ~Carries(RowsOf(tables, calls[s].args.table_name)[i], calls[s].args.data)
        => /\ lastID' >= 1
           /\ Text(calls'[s].env) =
                "Row inserted successfully. Last insert ID: " \o NumToString(lastID')
                    \o ", Changes: 1"
           /\ \E out \in {Exec(SelectBack(calls[s].args.table_name, calls[s].args.data),
                               <<>>, tables', lastID')} :
                /\ out.err = NoErr
                /\ Len(out.rows) = 1
                /\ Carries(out.rows[1], calls[s].args.data)
                /\ out.tables = tables']_vars

\* after insert_row {name: "b"} a run_query for name = 'b' was answered with
\* the one row the insert added
C12_Witness ==
    \E s \in Done :
        /\ calls[s].name = "run_query"
        /\ calls[s].args.query = Str(SelectBack(Str("users"), Name("b")))
        /\ Text(calls[s].env) =
            "Query executed successfully. Found 1 rows:\n[\n  {\n    \"id\": 2,\n    \"name\": \"b\"\n  }\n]"

\* the statement of call s, a call of tool name, completes
Completes(s, name) ==
    /\ calls[s].name = name
    /\ calls[s].pc = "waiting"
    /\ calls'[s].pc = "done"

\* the positions of the rows whose columns equal every value of where
Matching(rows, where) == {i \in 1..Len(rows) : Carries(rows[i], where)}

\* the row with the columns of data set to its values
Updated(row, data) ==
    [c \in DOMAIN row |->
        IF \E i \in 1..Len(data.v) : data.v[i].k = c
        THEN data.v[CHOOSE i \in 1..Len(data.v) : data.v[i].k = c].v
        ELSE row[c]]

\* C13: when the statement of an update_row(t, data, where) completes without
\* an error, the rows of t whose columns equal every value of where have the
\* columns of data set to its values, every other row and table is as before,
\* and the text reports as Changes the number of those rows; when it fails,
\* nothing has changed.
C13_UpdatesMatchingRows ==
    [][\A s \in Slots :
        Completes(s, "update_row") =>
            IF calls'[s].raised THEN tables' = tables
            ELSE \E ti \in {TableIndex(tables, calls[s].args.table_name.v, 1)} :
                 \E hit \in {Matching(tables[ti].rows, calls[s].args.where)} :
                    /\ tables' =
                        [tables EXCEPT ![ti].rows =
                            [i \in 1..Len(@) |->
                                IF i \in hit THEN Updated(@[i], calls[s].args.data)
                                ELSE @[i]]]
                    /\ Text(calls'[s].env) =
                        "Rows updated successfully. Changes: "
                            \o NumToString(Cardinality(hit))]_vars

\* update_row {name: "c"} where {name: "b"} changed both rows of users, which
\* were named b, and left their ids alone
C13_Witness ==
    \E s \in Done :
        /\ calls[s].name = "update_row"
        /\ calls[s].args.where = Name("b")
        /\ Text(calls[s].env) = "Rows updated successfully. Changes: 2"
        /\ tables[1].rows = <<[id |-> Num(1), name |-> Str("c")],
                              [id |-> Num(2), name |-> Str("c")]>>

\* the call names a table of the database and gives conditions on its columns
WellFormedWhere(call) ==
    /\ call.args.table_name.t = "string"
    /\ TableIndex(tables, call.args.table_name.v, 1) # 0
    /\ call.args.where.t = "object"
    /\ call.args.where.v # <<>>
    /\ \A i \in 1..Len(call.args.where.v) :
        call.args.where.v[i].k
            \in ColumnNames(tables[TableIndex(tables, call.args.table_name.v, 1)])

\* C14: when the statement of a delete_row completes whose conditions no row
\* of the table meets, the envelope is a success whose text reports
\* Changes: 0, and the tables are as before.
C14_NoMatchIsNotAnError ==
    [][\A s \in Slots :
        /\ Completes(s, "delete_row")
        /\ WellFormedWhere(calls[s])
        /\ Matching(RowsOf(tables, calls[s].args.table_name), calls[s].args.where) = {}
        => /\ ~calls'[s].raised
           /\ calls'[s].env = SuccessEnvelope("Rows deleted successfully. Changes: 0")
           /\ tables' = tables]_vars

\* delete_row where {id: 2} was answered Changes: 0 on the database that has
\* no such row
C14_Witness ==
    \E s \in Done :
        /\ calls[s].name = "delete_row"
        /\ calls[s].args.where = Id(2)
        /\ Text(calls[s].env) = "Rows deleted successfully. Changes: 0"
        /\ ~HasFlag(calls[s].env)
        /\ tables = SeedTables

\* the description of a table as its declaration has it: one entry per
\* declared column, the primary-key flag on every column of the key, the
\* not-null flag on the columns declared NOT NULL
DeclaredDescription(v, tbl) ==
    Obj(<<Prop(IF v = "ts" THEN "name" ELSE "table_name", Str(tbl.name)),
          Prop("columns",
               Arr([k \in 1..Len(tbl.cols) |->
                    Obj(<<Prop("name", Str(tbl.cols[k].name)),
                          Prop("type", Str(tbl.cols[k].type)),
                          Prop(IF v = "ts" THEN "notNull" ELSE "not_null",
                               Bool(tbl.cols[k].notnull = 1)),
                          Prop(IF v = "ts" THEN "primaryKey" ELSE "primary_key",
                               Bool(tbl.cols[k].pk > 0)),
                          Prop(IF v = "ts" THEN "defaultValue" ELSE "default_value",
                               tbl.cols[k].dflt)>>)])),
          Prop(IF v = "ts" THEN "createSql" ELSE "create_sql", Str(tbl.sql))>>)

\* C15: the answer to describe_table(t), for a table t of the database, has one
\* entry per declared column, whose primary-key flag is true exactly for the
\* columns of the table's primary key (each column of a composite key
\* included) and whose not-null flag is true exactly for the NOT NULL columns.
C15_FlagsMatchSchema ==
    \A s \in Done :
        /\ calls[s].name = "describe_table"
        /\ ~calls[s].raised
        /\ calls[s].args.table_name.t = "string"
        /\ TableIndex(tables, calls[s].args.table_name.v, 1) # 0
        => Text(calls[s].env) =
            "Table: " \o calls[s].args.table_name.v \o "\n"
                \o JsonStringify(DeclaredDescription(variant,
                        tables[TableIndex(tables, calls[s].args.table_name.v, 1)]))

\* the names of the tables that are not the engine's own, in table order
UserTables(tbls) ==
    SelectSeq([i \in 1..Len(tbls) |-> tbls[i].name],
              LAMBDA n : ~StartsWith(ToLowerCase(n), "sqlite_"))

RECURSIVE Ascending(_)
\* the names in ascending order
Ascending(names) ==
    IF Len(names) = 0 THEN <<>>
    ELSE LET least == CHOOSE i \in 1..Len(names) :
                        \A j \in 1..Len(names) : ~StrLess(names[j], names[i])
         IN  <<names[least]>>
                \o Ascending(SubSeq(names, 1, least - 1) \o SubSeq(names, least + 1, Len(names)))

\* C16: the answer to list_tables names every table except the engine's own
\* (those whose name starts with sqlite_), in ascending order, and the N of
\* "Found N tables" is the number of names listed.
C16_ListsEveryUserTable ==
    \A s \in Done :
        calls[s].name = "list_tables" /\ ~calls[s].raised =>
            Text(calls[s].env) =
                "Found " \o NumToString(Len(UserTables(tables))) \o " tables:\n"
                    \o Join([i \in 1..Len(UserTables(tables)) |->
                                "- " \o Ascending(UserTables(tables))[i]], "\n")

\* the fields a route requires of its body
Required(route) ==
    CASE route = "query" -> {"query"}
      [] route = "insert" -> {"data"}
      [] route = "update" -> {"data", "where"}
      [] OTHER -> {"where"}

\* the body of the request lacks a field its route requires
Lacks(h) ==
    \/ "query" \in Required(h.route) /\ h.body.query = Undefined
    \/ "data" \in Required(h.route) /\ h.body.data = Undefined
    \/ "where" \in Required(h.route) /\ h.body.where = Undefined

\* C17: a request to POST /query, POST /tables/:tableName/insert,
\* PUT /tables/:tableName/update or DELETE /tables/:tableName/delete whose body
\* lacks the field the route requires is answered with status 400 and goes no
\* further: no JSON-RPC message is sent, no handler is entered, the connection
\* is not opened and no table changes.
C17_MissingFieldIs400 ==
    [][http' # http /\ Lacks(http'.request) =>
            /\ http'.status = 400
            /\ ~http'.sent
            /\ calls' = calls
            /\ db' = db
            /\ connects' = connects
            /\ tables' = tables]_vars

\* dual-server.js answered 400 to a PUT /tables/users/update that carried data
\* and no where, and http-wrapper.ts does the same
C17_Witness ==
    /\ variant = "dual"
    /\ http.request = HttpRequest("update", "users", [EmptyArgs EXCEPT !.data = Name("b")])
    /\ http.status = 400
    /\ ~http.sent
    /\ db = "null"

\* the process has exited, with a code or by a signal
Exited == proc \in {"exit0", "exit1", "killed"}

\* C19 as stated: the persistent server ends in two ways only, with code 0 on
\* SIGINT or SIGTERM and with code 1 when its first connection fails.
C19_ExitsWithCode0Or1 ==
    variant = "persistent" => proc \in {"starting", "running", "exit0", "exit1"}

\* C19, amended: once the persistent server has connected its database it keeps
\* running until SIGINT or SIGTERM arrives, and then exits with code 0; while it
\* is still connecting, a failed open makes it exit with code 1 and a SIGINT or
\* SIGTERM terminates it by the signal, its handlers not yet being installed.
\* No other step ends the process, and it starts running only with an open
\* database.
C19_RunsUntilSignalled ==
    [][variant = "persistent" /\ proc' # proc =>
            /\ ~Exited
            /\ proc' = "running" => proc = "starting" /\ db = "open"
            /\ proc' = "exit0" =>
                proc = "running" /\ \E sig \in {"SIGINT", "SIGTERM"} : Signal(sig)
            /\ proc' = "exit1" => proc = "starting" /\ OpenFails
            /\ proc' = "killed" =>
                proc = "starting" /\ \E sig \in {"SIGINT", "SIGTERM"} : Signal(sig)]_vars

\* the persistent server ran with its database open and, on a signal, asked
\* for the close of the handle and exited with code 0
C19_Witness ==
    /\ variant = "persistent"
    /\ proc = "exit0"
    /\ db \in {"closing", "closed"}
    /\ conn.stage = "done"

\* C20: while the persistent server is running, a tools/call request written to
\* its stdin is dispatched to the tool handler and answered: no request is left
\* unread.
C20_RequestsAreDispatched ==
    variant = "persistent" /\ proc = "running" =>
        /\ "stdio" \in Transports(variant)
        /\ stdio.unread = 0

\* the ids of the responses written to stdout
Answered == {stdio.out[i] : i \in 1..Len(stdio.out)}

\* the ids of the requests whose handler has not returned its response yet
Pending == {calls[s].id : s \in Serving}

RECURSIVE CommaList(_)
CommaList(items) ==
    IF items = <<>> THEN ""
    ELSE IF Len(items) = 1 THEN items[1]
    ELSE items[1] \o ", " \o CommaList(Tail(items))

\* call s is an insert_row with a table name and a non-empty data mapping, and
\* its statement has been handed to the database handle
InsertSubmitted(s) ==
    /\ calls[s].name = "insert_row"
    /\ calls[s].pc = "waiting"
    /\ calls[s].args.table_name.t = "string"
    /\ calls[s].args.data.t = "object"
    /\ calls[s].args.data.v # <<>>

SelectLetters ==
    << {"s", "S"}, {"e", "E"}, {"l", "L"}, {"e", "E"}, {"c", "C"}, {"t", "T"} >>

\* the first characters of q after its leading white space spell select
LeadingSelect(q) ==
    \E i \in 1..Len(q) :
        /\ \A j \in 1..(i - 1) : SubSeq(q, j, j) \in {" ", "\n", "\t"}
        /\ i + 5 <= Len(q)
        /\ \A k \in 1..6 : SubSeq(q, i + k - 1, i + k - 1) \in SelectLetters[k]

\* q begins with the word select: the letters, and then no character that would
\* continue an identifier
LeadingSelectToken(q) ==
    /\ LeadingSelect(q)
    /\ \A i \in 1..Len(q) :
        (/\ \A j \in 1..(i - 1) : SubSeq(q, j, j) \in {" ", "\n", "\t"}
         /\ SubSeq(q, i, i) \in SelectLetters[1]
         /\ i + 6 <= Len(q))
        => LowerChar(SubSeq(q, i + 6, i + 6)) \notin IdentChars

\* the run_query calls with a string for a query that got as far as the validator
Validated ==
    {s \in Done : /\ calls[s].name = "run_query"
                  /\ calls[s].args.query.t = "string"
                  /\ calls[s].error # CantOpen}

\* the validator rejected the query of the call
RejectedAsWrite(call) == call.raised /\ call.error = OnlySelect

\* C26 as stated: the validator accepts a query if and only if, trimmed and
\* lower-cased, it begins with the token select; every other query is rejected
\* with the reason that only SELECT queries are allowed.
C26_AcceptsSelectToken ==
    \A s \in Validated :
        RejectedAsWrite(calls[s]) <=> ~LeadingSelectToken(calls[s].args.query.v)

\* C26, amended: the validator accepts a query if and only if, trimmed and
\* lower-cased, it begins with the six characters select, whatever follows
\* them; every other query is rejected with the reason that only SELECT queries
\* are allowed, and an accepted one is handed to the database as it was given.
C26_AcceptsSelectPrefix ==
    \A s \in Validated :
        /\ RejectedAsWrite(calls[s]) <=> ~LeadingSelect(calls[s].args.query.v)
        /\ LeadingSelect(calls[s].args.query.v) =>
                calls[s].sqls[Len(calls[s].sqls)] = calls[s].args.query.v

\* the query "selectall" was accepted by the validator and failed in the engine
C26_Witness ==
    \E s \in Validated :
        /\ calls[s].args.query.v = "selectall"
        /\ calls[s].raised
        /\ calls[s].error # OnlySelect

\* the statement of call s completes
StatementEnds(s) == calls[s].pc = "waiting" /\ calls'[s].pc = "done"

\* C25: an insert_row or update_row called with an empty data mapping fails:
\* its envelope has isError true and no row is inserted or changed.
C25_EmptyDataFails ==
    [][\A s \in Slots :
        /\ StatementEnds(s)
        /\ calls[s].name \in {"insert_row", "update_row"}
        /\ calls[s].args.data = Obj(<<>>)
        => /\ Failure(calls'[s].env)
           /\ tables' = tables]_vars

\* C25's failing call: insert_row with an empty data mapping on the table name
\* "users (name) VALUES ('x') --" was answered as a success and a row was
\* inserted
C25_Inserted ==
    \E s \in Done :
        /\ calls[s].name = "insert_row"
        /\ calls[s].args.data = Obj(<<>>)
        /\ ~calls[s].raised
        /\ ~HasFlag(calls[s].env)
        /\ \E i \in 1..Len(tables[1].rows) : tables[1].rows[i].name = Str("x")

\* C29: an update_row or delete_row called with an empty where mapping never
\* updates or deletes a row: the call ends in an error envelope and the tables
\* are unchanged.
C29_EmptyWhereChangesNothing ==
    [][\A s \in Slots :
        /\ StatementEnds(s)
        /\ calls[s].name \in {"update_row", "delete_row"}
        /\ calls[s].args.where = Obj(<<>>)
        => /\ Failure(calls'[s].env)
           /\ tables' = tables]_vars

\* C29's failing call: delete_row with an empty where mapping on the table name
\* "users --" deleted every row of users and reported the number
C29_DeletedAll ==
    \E s \in Done :
        /\ calls[s].name = "delete_row"
        /\ calls[s].args.where = Obj(<<>>)
        /\ Text(calls[s].env) = "Rows deleted successfully. Changes: 1"
        /\ ~HasFlag(calls[s].env)
        /\ tables[1].name = "users"
        /\ tables[1].rows = <<>>

\* the call names, by a plain identifier, a table the database does not have
NamesMissingTable(call) ==
    \/ /\ call.name \in {"describe_table", "insert_row", "update_row", "delete_row"}
       /\ AllowListed(call.args.table_name)
       /\ TableIndex(tables, call.args.table_name.v, 1) = 0
    \/ /\ call.name = "run_query"
       /\ call.args.query = Str("SELECT * FROM nosuch")

\* C27: an operation that names a table the database does not have ends with
\* an envelope that has isError true and carries the driver's message; none
\* reports success.
C27_MissingTableIsAnError ==
    \A s \in Done :
        NamesMissingTable(calls[s]) =>
            /\ Failure(calls[s].env)
            /\ calls[s].raised

\* C27's failing call: describe_table users on the database that has no table
\* users was answered as a success describing no columns
C27_DescribedNothing ==
    \E s \in Done :
        /\ calls[s].name = "describe_table"
        /\ calls[s].args.table_name = Str("users")
        /\ tables = CatalogTables
        /\ ~HasFlag(calls[s].env)
        /\ calls[s].saved = <<>>

\* the envelope a handler's piece ends with
EnvelopeOf(name, out) ==
    IF out.kind = "throw" THEN ErrorEnvelope(name, out.msg) ELSE SuccessEnvelope(out.text)

\* what the handler of program v answers to a call on an open database holding
\* tbls, and the tables it leaves: the switch, the statement, its callback,
\* and for describe_table the second statement and its callback
Outcome(v, name, args, tbls, lid) ==
    With(Dispatch(v, name, args), LAMBDA first :
    IF first.kind # "submit" THEN [env |-> EnvelopeOf(name, first), tables |-> tbls]
    ELSE
    With(Exec(first.stmt.sql, first.stmt.params, tbls, lid), LAMBDA res :
    With(Complete(v, [NewCall(name, args, "stdio") EXCEPT !.step = 1], res), LAMBDA second :
    IF second.kind # "submit" THEN [env |-> EnvelopeOf(name, second), tables |-> res.tables]
    ELSE
    With(Exec(second.stmt.sql, second.stmt.params, res.tables, res.lastID), LAMBDA res2 :
    With(Complete(v, [NewCall(name, args, "stdio") EXCEPT !.step = 2, !.saved = second.saved],
                  res2), LAMBDA third :
        [env |-> EnvelopeOf(name, third), tables |-> res2.tables])))))

\* C22: for every operation name, argument bag and database state, the
\* dispatcher of server.ts and the dispatcher of dual-server.js return the same
\* envelope and leave the database in the same state.
C22_SameOutcome ==
    \A req \in Requests :
        Outcome("ts", req.name, req.args, tables, lastID)
            = Outcome("dual", req.name, req.args, tables, lastID)

\* C22's failing call: dual-server.js answered a describe_table without a
\* table name as a success, which server.ts rejects
C22_DualDescribesUndefined ==
    \E s \in Done :
        /\ variant = "dual"
        /\ calls[s].name = "describe_table"
        /\ calls[s].args = EmptyArgs
        /\ ~calls[s].raised
        /\ ~HasFlag(calls[s].env)
        /\ DispatchTs(calls[s].name, calls[s].args) = Throw(TableNameRequired)

\* connectDatabase has completed: the handle is open and its PRAGMAs have run
ConnectionReady == db = "open" /\ conn.stage = "done"

\* C23: no statement of a tool call is handed to the database handle before
\* connectDatabase has completed, also when calls arrive while the first
\* connection is being made, and none is handed to a handle whose open failed.
C23_StatementsAfterConnect ==
    \A s \in Slots : calls[s].pc = "waiting" => ConnectionReady

\* C23's failing calls: while the first call was still opening the database, a
\* second call handed its statement to the handle, before PRAGMA foreign_keys
C23_SubmittedWhileOpening ==
    \E s, t \in Slots :
        /\ calls[s].pc = "connecting"
        /\ db = "opening"
        /\ calls[t].pc = "waiting"
        /\ calls[t].sqls # <<>>

\* C23's failing call: a call handed its statement to the handle whose open had
\* failed
C23_SubmittedAfterFailure ==
    \E t \in Slots : db = "failed" /\ calls[t].pc = "waiting" /\ calls[t].sqls # <<>>

\* C28: in http-wrapper.ts every HTTP request is answered with the response to
\* its own message: none receives the response to another request's message or
\* a failure because an earlier request ended the server's stdin.
C28_OwnResponse ==
    variant = "wrapper" =>
        /\ proc # "crashed"
        /\ \A i \in 1..child.sent : child.answers[i] \in {0, i}

\* C28's failing requests: the second request was sent while the server spawned
\* for the first was still running, and was answered with the response to the
\* first request's message
C28_AnsweredWithAnothers ==
    /\ variant = "wrapper"
    /\ child.sent >= 2
    /\ child.answers[1] = 1
    /\ child.answers[2] = 1

\* the process was ended by SIGINT or SIGTERM
Signalled == proc \in {"exit0", "killed"}

\* the i-th request to the HTTP wrapper has been sent and is not answered
Unanswered(i) == child.sent >= i /\ child.answers[i] = 0

\* C21: if the driver completes or fails every statement and a spawned server
\* runs, every tools/call accepted by a transport is answered in the end, over
\* stdio and over HTTP, unless a signal ends the process first: no request
\* stays pending forever.
C21_EveryRequestAnswered ==
    /\ \A s \in Slots :
        (calls[s].pc # "free") ~> (calls[s].pc = "free" \/ db = "failed")
    /\ \A i \in 1..MaxRequests :
        Unanswered(i) ~> (~Unanswered(i) \/ Signalled)

\* the calls of server.ts and dual-server.js are answered in the end, where
\* the handle has not failed to open
C21_CallsAnswered ==
    \A s \in Slots :
        (calls[s].pc # "free") ~> (calls[s].pc = "free" \/ db = "failed")

\* C21's failing requests: the wrapper ended on the write of a second message
\* while its server was running, with both requests unanswered
C21_BothPending ==
    /\ variant = "wrapper"
    /\ proc = "crashed"
    /\ Unanswered(1)
    /\ Unanswered(2)

\* C30: when SIGINT or SIGTERM ends a server that has a handler for it, the
\* process has exited with code 0 and a handle that was open is closed: the
\* close has completed before the exit.
C30_ClosedBeforeExit ==
    proc = "exit0" => db \in {"null", "opening", "failed", "closed"}

\* C30's failing run: server.ts or server-persistent.js has exited on a signal
\* while the close of its open handle was still under way
C30_ExitedWhileClosing ==
    /\ variant \in {"ts", "persistent"}
    /\ proc = "exit0"
    /\ db = "closing"

====
